---- MODULE Spec2Model ----
(***************************************************************************)
(* Model of the database access layer of the SQL language server:          *)
(* the connection cache (db/mod.rs), the lazily initialised connection     *)
(* handle and the scheme dispatch (db/connection.rs), the per-backend      *)
(* query executors (db/sqlite.rs, db/mysql.rs, db/postgres.rs) and the two *)
(* command handlers (command/cmd.rs) behind execute_command (main.rs),     *)
(* the shutdown request (main.rs) and the code lenses (parser.rs).         *)
(*                                                                         *)
(* Text is modelled as a sequence of one-character strings, so that        *)
(* starts_with, contains, trim and to_lowercase are computed, not assumed. *)
(***************************************************************************)
EXTENDS Integers, Sequences, FiniteSets, TLC

VARIABLES
    map,        \* DB_POOL_MAP: connection id -> handle, over the registered ids
    readers,    \* tasks holding the read lock of DB_POOL_MAP
    writer,     \* tasks holding the write lock of DB_POOL_MAP (at most one)
    handles,    \* the DBConnection objects allocated so far (Arc identities)
    options,    \* handle -> DBConnection.options.connection_string
    cell,       \* handle -> DBConnection.pool, the tokio OnceCell
    permit,     \* handle -> tasks holding the OnceCell's initialisation permit
    initRuns,   \* handle -> number of runs of from_options for this handle
    madeFor,    \* handle -> connection id it was created for
    returned,   \* connection id -> handles that from_cache has returned for it
    firstOpt,   \* connection id -> the parameters of the first resolve for it
    pc,         \* task -> position in the command handler
    req,        \* task -> the request being served
    connect,    \* task -> the handle from_cache gave it
    pool,       \* task -> the value get_pool gave it
    resp,       \* task -> the outcome of the command
    calls,      \* number of commands started so far
    conn_in,    \* input of the scheme dispatch when checked on its own
    conn_out,   \* its output
    exec_in,    \* input of a backend's execute_query when checked on its own
    exec_out,   \* its output
    cancel,     \* Backend.cancel, the CancellationToken: TRUE once cancelled
    lens_in,    \* input of SqlAst::code_lens when checked on its own
    lens_out,   \* its output
    document_map, \* Backend.document_map: uri -> SqlAst
    doc_log,    \* the document notifications and lens requests handled so far
    in_use,     \* connections of one handle's pool that are checked out
    qpc,        \* query -> where it stands with that pool
    waited,     \* query -> seconds it has been waiting for a connection
    LOGGER,     \* logger::LOGGER: TRUE once the channel has been made
    chan,       \* the messages the channel holds for the receiver
    lag,        \* messages overwritten before the receiver took them
    rx,         \* the forwarding task's position
    forwarded,  \* the messages passed to client.log_message, in order
    logged      \* the calls of logger::log so far, counted by when they came

cacheVars == <<map, readers, writer, handles, options, cell, permit, initRuns,
               madeFor, returned, firstOpt>>
taskVars == <<pc, req, connect, pool, resp, calls>>
fnVars == <<conn_in, conn_out, exec_in, exec_out>>
docVars == <<document_map, doc_log>>
connVars == <<in_use, qpc, waited>>
logVars == <<LOGGER, chan, lag, rx, forwarded, logged>>
restVars == <<docVars, connVars, logVars>>
srvVars == <<cancel, lens_in, lens_out, restVars>>
vars == <<map, readers, writer, handles, options, cell, permit, initRuns,
          madeFor, returned, firstOpt, pc, req, connect, pool, resp, calls,
          conn_in, conn_out, exec_in, exec_out, cancel, lens_in, lens_out,
          document_map, doc_log, in_use, qpc, waited, LOGGER, chan, lag, rx,
          forwarded, logged>>

(***************************************************************************)
(* Bounds                                                                  *)
(***************************************************************************)
NumTasks == 2      \* command handlers that can be in flight together
MaxCalls == 2      \* commands served in one run
MaxFrags == 2      \* fragments a connection string is put together from
MaxRows == 2       \* rows of a fetched result
MaxCols == 2       \* projected columns of a fetched result
MaxCells == 4      \* cells of a fetched result
MaxAffected == 1   \* largest affected-row count the driver reports
MaxStmts == 2      \* statements of a parsed document
MaxQueriers == 6   \* queries that can be running on one pool together
MaxEvents == 3     \* document notifications and lens requests in one run
MaxLogged == 130   \* messages logged between initialize and shutdown
MaxStray == 1      \* messages logged before initialize, and after shutdown

Tasks == 1..NumTasks
Queriers == 1..MaxQueriers
Handles == 1..MaxCalls

(***************************************************************************)
(* Text                                                                    *)
(***************************************************************************)
starts_with(s, p) == Len(s) >= Len(p) /\ SubSeq(s, 1, Len(p)) = p

contains(s, p) ==
    \E i \in 1..(Len(s) - Len(p) + 1) : SubSeq(s, i, i + Len(p) - 1) = p

RECURSIVE Concat(_)
Concat(ss) == IF ss = <<>> THEN <<>> ELSE Head(ss) \o Concat(Tail(ss))

S_sqlite == <<"s", "q", "l", "i", "t", "e", ":">>
S_mysql == <<"m", "y", "s", "q", "l", ":">>
S_mysql_url == <<"m", "y", "s", "q", "l", ":", "/", "/">>
S_postgres == <<"p", "o", "s", "t", "g", "r", "e", "s", ":">>
S_postgresql_url ==
    <<"p", "o", "s", "t", "g", "r", "e", "s", "q", "l", ":", "/", "/">>

(***************************************************************************)
(* Dispatch facade: DBConnection::from_options                             *)
(***************************************************************************)
DatabaseType == {"SQLite", "MySQL", "PostgreSQL"}
NoBackend == "none"
ErrUnsupported == "Unsupported database type in connection string"
ErrDriverConfig == "driver configuration error"

\* DBSet::<DB>::create: connect_lazy parses the connection string and builds
\* the pool without connecting; accepted says whether the driver's parser
\* took the string.
create(db_type, accepted) ==
    IF accepted
    THEN [ok |-> TRUE, backend |-> db_type, err |-> ""]
    ELSE [ok |-> FALSE, backend |-> db_type, err |-> ErrDriverConfig]

from_options(connection_string, accepted) ==
    IF starts_with(connection_string, S_sqlite)
    THEN create("SQLite", accepted)
    ELSE IF starts_with(connection_string, S_mysql)
            \/ contains(connection_string, S_mysql_url)
    THEN create("MySQL", accepted)
    ELSE IF starts_with(connection_string, S_postgres)
            \/ contains(connection_string, S_postgresql_url)
    THEN create("PostgreSQL", accepted)
    ELSE [ok |-> FALSE, backend |-> NoBackend, err |-> ErrUnsupported]

(***************************************************************************)
(* JSON values (serde_json::Value) as far as the executors build them      *)
(***************************************************************************)
JNull == [t |-> "null", v |-> <<>>]
JString(s) == [t |-> "string", v |-> s]
JObject(m) == [t |-> "object", v |-> m]
JArray(a) == [t |-> "array", v |-> a]

\* serde_json::Map::new and Map::insert: a later insert under a key that is
\* already present replaces the value.
EmptyMap == [k \in {} |-> JNull]
MapInsert(m, k, v) == [x \in (DOMAIN m) \cup {k} |-> IF x = k THEN v ELSE m[x]]

\* The order in which a serde_json::Map holds its keys.  The map is a
\* BTreeMap, ordered by key, unless the crate is built with its
\* preserve_order feature, which makes it an IndexMap, ordered by first
\* insertion; the sources do not fix the feature.
SortedColNames == <<"id", "name">>

sorted_keys(columns) ==
    SelectSeq(SortedColNames,
              LAMBDA k : \E i \in 1..Len(columns) : columns[i] = k)

RECURSIVE first_inserted(_)
first_inserted(columns) ==
    IF columns = <<>> THEN <<>>
    ELSE LET before == first_inserted(SubSeq(columns, 1, Len(columns) - 1))
             k == columns[Len(columns)]
         IN  IF \E i \in 1..Len(before) : before[i] = k THEN before
             ELSE Append(before, k)

\* the keys of the object built by inserting the columns one after the other
map_keys(columns, preserve_order) ==
    IF preserve_order THEN first_inserted(columns) ELSE sorted_keys(columns)

(***************************************************************************)
(* Formatting: base64 STANDARD, i64 and f64 to_string                      *)
(***************************************************************************)
Base64Alphabet ==
    <<"A", "B", "C", "D", "E", "F", "G", "H", "I", "J", "K", "L", "M",
      "N", "O", "P", "Q", "R", "S", "T", "U", "V", "W", "X", "Y", "Z",
      "a", "b", "c", "d", "e", "f", "g", "h", "i", "j", "k", "l", "m",
      "n", "o", "p", "q", "r", "s", "t", "u", "v", "w", "x", "y", "z",
      "0", "1", "2", "3", "4", "5", "6", "7", "8", "9", "+", "/">>

B64Char(n) == Base64Alphabet[n + 1]

\* base64::engine::general_purpose::STANDARD.encode: three bytes give four
\* characters, a last group of one or two bytes is padded with "=".
RECURSIVE base64_encode(_)
base64_encode(bytes) ==
    IF Len(bytes) = 0 THEN <<>>
    ELSE IF Len(bytes) = 1
    THEN LET n == bytes[1] * 65536
         IN  <<B64Char(n \div 262144), B64Char((n \div 4096) % 64), "=", "=">>
    ELSE IF Len(bytes) = 2
    THEN LET n == bytes[1] * 65536 + bytes[2] * 256
         IN  <<B64Char(n \div 262144), B64Char((n \div 4096) % 64),
               B64Char((n \div 64) % 64), "=">>
    ELSE LET n == bytes[1] * 65536 + bytes[2] * 256 + bytes[3]
         IN  <<B64Char(n \div 262144), B64Char((n \div 4096) % 64),
               B64Char((n \div 64) % 64), B64Char(n % 64)>>
             \o base64_encode(SubSeq(bytes, 4, Len(bytes)))

Digits == <<"0", "1", "2", "3", "4", "5", "6", "7", "8", "9">>

RECURSIVE NatToString(_)
NatToString(n) ==
    IF n < 10 THEN <<Digits[n + 1]>>
    ELSE NatToString(n \div 10) \o <<Digits[(n % 10) + 1]>>

\* i64::to_string
i64_to_string(n) == IF n < 0 THEN <<"-">> \o NatToString(-n) ELSE NatToString(n)

\* f64::to_string for the floats of the model, which are held in tenths
\* (15 is 1.5): the shortest decimal that reads back, no trailing ".0".
f64_to_string(tenths) ==
    LET a == IF tenths < 0 THEN -tenths ELSE tenths
        int == NatToString(a \div 10)
        frac == IF a % 10 = 0 THEN <<>> ELSE <<".", Digits[(a % 10) + 1]>>
    IN  (IF tenths < 0 THEN <<"-">> ELSE <<>>) \o int \o frac

S_binary == <<"(", "b", "i", "n", "a", "r", "y", ")", " ">>
S_unknown_type ==
    <<"(", "u", "n", "k", "n", "o", "w", "n", " ", "t", "y", "p", "e", ":", " ">>

(***************************************************************************)
(* Statement classification: query.trim().to_lowercase().starts_with(..)   *)
(***************************************************************************)
WhiteSpace == {" ", "\t", "\n"}

RECURSIVE trim_start(_)
trim_start(s) ==
    IF s # <<>> /\ Head(s) \in WhiteSpace THEN trim_start(Tail(s)) ELSE s

RECURSIVE trim_end(_)
trim_end(s) ==
    IF s # <<>> /\ s[Len(s)] \in WhiteSpace
    THEN trim_end(SubSeq(s, 1, Len(s) - 1))
    ELSE s

trim(s) == trim_end(trim_start(s))

UpperCase ==
    <<"A", "B", "C", "D", "E", "F", "G", "H", "I", "J", "K", "L", "M",
      "N", "O", "P", "Q", "R", "S", "T", "U", "V", "W", "X", "Y", "Z">>
LowerCase ==
    <<"a", "b", "c", "d", "e", "f", "g", "h", "i", "j", "k", "l", "m",
      "n", "o", "p", "q", "r", "s", "t", "u", "v", "w", "x", "y", "z">>

char_to_lowercase(c) ==
    IF \E i \in 1..Len(UpperCase) : UpperCase[i] = c
    THEN LowerCase[CHOOSE i \in 1..Len(UpperCase) : UpperCase[i] = c]
    ELSE c

to_lowercase(s) == [i \in 1..Len(s) |-> char_to_lowercase(s[i])]

S_select == <<"s", "e", "l", "e", "c", "t">>

\* is_select with the trim left out
is_select_untrimmed(query) == starts_with(to_lowercase(query), S_select)

is_select(query) == starts_with(to_lowercase(trim(query)), S_select)

(***************************************************************************)
(* The driver's rows.  A cell is NULL, or it is not and then ok holds the  *)
(* Rust types the driver decodes it as; s, b, i, f are what each decode    *)
(* gives and ty is the column's type name.                                 *)
(***************************************************************************)
Decoders == {"String", "Bytes", "I64", "F64"}

\* Row::try_get::<Option<T>, _>(i): Ok(None) for a NULL whatever T is,
\* otherwise Ok(Some(v)) when the driver decodes the column as T, else Err.
try_get(c, T) ==
    IF c.null THEN [ok |-> TRUE, some |-> FALSE, v |-> <<>>]
    ELSE IF T \in c.ok
    THEN [ok |-> TRUE, some |-> TRUE,
          v |-> CASE T = "String" -> c.s
                  [] T = "Bytes" -> c.b
                  [] T = "I64" -> c.i
                  [] T = "F64" -> c.f]
    ELSE [ok |-> FALSE, some |-> FALSE, v |-> <<>>]

ErrDriver == "driver error"
ErrDecode == "column decode error"

QueryOk(value, total) == [ok |-> TRUE, value |-> value, total |-> total, err |-> ""]
QueryErr(e) == [ok |-> FALSE, value |-> JNull, total |-> 0, err |-> e]

(***************************************************************************)
(* MySQL executor                                                          *)
(***************************************************************************)
\* mysql_value with the integer decode tried before the byte decode
mysql_value_int_first(c) ==
    IF try_get(c, "String").ok
    THEN IF try_get(c, "String").some
         THEN JString(try_get(c, "String").v) ELSE JNull
    ELSE IF try_get(c, "I64").ok
    THEN IF try_get(c, "I64").some
         THEN JString(i64_to_string(try_get(c, "I64").v)) ELSE JNull
    ELSE IF try_get(c, "Bytes").ok
    THEN IF try_get(c, "Bytes").some
         THEN JString(S_binary \o base64_encode(try_get(c, "Bytes").v))
         ELSE JNull
    ELSE IF try_get(c, "F64").ok
    THEN IF try_get(c, "F64").some
         THEN JString(f64_to_string(try_get(c, "F64").v)) ELSE JNull
    ELSE JString(S_unknown_type \o c.ty \o <<")">>)

\* mysql_value with the "(binary) " tag left off the encoded bytes
mysql_value_untagged(c) ==
    IF try_get(c, "String").ok
    THEN IF try_get(c, "String").some
         THEN JString(try_get(c, "String").v) ELSE JNull
    ELSE IF try_get(c, "Bytes").ok
    THEN IF try_get(c, "Bytes").some
         THEN JString(base64_encode(try_get(c, "Bytes").v))
         ELSE JNull
    ELSE IF try_get(c, "I64").ok
    THEN IF try_get(c, "I64").some
         THEN JString(i64_to_string(try_get(c, "I64").v)) ELSE JNull
    ELSE IF try_get(c, "F64").ok
    THEN IF try_get(c, "F64").some
         THEN JString(f64_to_string(try_get(c, "F64").v)) ELSE JNull
    ELSE JString(S_unknown_type \o c.ty \o <<")">>)

\* The if / else-if chain of mysql.rs that turns one cell into a JSON value.
mysql_value(c) ==
    IF try_get(c, "String").ok
    THEN IF try_get(c, "String").some
         THEN JString(try_get(c, "String").v) ELSE JNull
    ELSE IF try_get(c, "Bytes").ok
    THEN IF try_get(c, "Bytes").some
         THEN JString(S_binary \o base64_encode(try_get(c, "Bytes").v))
         ELSE JNull
    ELSE IF try_get(c, "I64").ok
    THEN IF try_get(c, "I64").some
         THEN JString(i64_to_string(try_get(c, "I64").v)) ELSE JNull
    ELSE IF try_get(c, "F64").ok
    THEN IF try_get(c, "F64").some
         THEN JString(f64_to_string(try_get(c, "F64").v)) ELSE JNull
    ELSE JString(S_unknown_type \o c.ty \o <<")">>)

\* The inner loop over row.columns(): obj after the first n columns.
RECURSIVE mysql_row(_, _)
mysql_row(row, n) ==
    IF n = 0 THEN EmptyMap
    ELSE MapInsert(mysql_row(row, n - 1), row.columns[n],
                   mysql_value(row.cells[n]))

mysql_rows(rows) ==
    [r \in 1..Len(rows) |-> JObject(mysql_row(rows[r], Len(rows[r].columns)))]

\* MySQLOperations::execute_query; db is what the database answers.
mysql_execute_query(query, db) ==
    IF is_select(query)
    THEN IF ~db.ok THEN QueryErr(ErrDriver)
         ELSE QueryOk(JArray(mysql_rows(db.rows)), Len(db.rows))
    ELSE IF ~db.ok THEN QueryErr(ErrDriver)
         ELSE QueryOk(JNull, db.affected)

(***************************************************************************)
(* SQLite and PostgreSQL executors (the same code over two drivers)        *)
(***************************************************************************)
\* string_row passing a NULL cell on as JSON null
RECURSIVE string_row_null(_, _)
string_row_null(row, n) ==
    IF n = 0 THEN <<TRUE, EmptyMap>>
    ELSE LET before == string_row_null(row, n - 1)
             got == try_get(row.cells[n], "String")
         IN  IF ~before[1] THEN before
             ELSE IF ~got.ok THEN <<FALSE, EmptyMap>>
             ELSE <<TRUE, MapInsert(before[2], row.columns[n],
                                    IF got.some THEN JString(got.v) ELSE JNull)>>

\* let value: Option<String> = row.try_get(i)?; then unwrap_or_default.
\* The result is <<TRUE, obj>> or, when a try_get failed, <<FALSE, _>>.
RECURSIVE string_row(_, _)
string_row(row, n) ==
    IF n = 0 THEN <<TRUE, EmptyMap>>
    ELSE LET before == string_row(row, n - 1)
             got == try_get(row.cells[n], "String")
         IN  IF ~before[1] THEN before
             ELSE IF ~got.ok THEN <<FALSE, EmptyMap>>
             ELSE <<TRUE, MapInsert(before[2], row.columns[n],
                                    JString(IF got.some THEN got.v ELSE <<>>))>>

\* The outer loop: result after the first n rows, or the error of "?".
RECURSIVE string_rows(_, _)
string_rows(rows, n) ==
    IF n = 0 THEN <<TRUE, <<>>>>
    ELSE LET before == string_rows(rows, n - 1)
             obj == string_row(rows[n], Len(rows[n].columns))
         IN  IF ~before[1] THEN before
             ELSE IF ~obj[1] THEN <<FALSE, <<>>>>
             ELSE <<TRUE, Append(before[2], JObject(obj[2]))>>

\* string_execute_query counting the affected rows on the read path too
string_execute_query_affected(query, db) ==
    IF is_select(query)
    THEN IF ~db.ok THEN QueryErr(ErrDriver)
         ELSE LET result == string_rows(db.rows, Len(db.rows))
              IN  IF result[1]
                  THEN QueryOk(JArray(result[2]), db.affected)
                  ELSE QueryErr(ErrDecode)
    ELSE IF ~db.ok THEN QueryErr(ErrDriver)
         ELSE QueryOk(JNull, db.affected)

string_execute_query(query, db) ==
    IF is_select(query)
    THEN IF ~db.ok THEN QueryErr(ErrDriver)
         ELSE LET result == string_rows(db.rows, Len(db.rows))
              IN  IF result[1]
                  THEN QueryOk(JArray(result[2]), Len(db.rows))
                  ELSE QueryErr(ErrDecode)
    ELSE IF ~db.ok THEN QueryErr(ErrDriver)
         ELSE QueryOk(JNull, db.affected)

\* SQLiteOperations::execute_query
sqlite_execute_query(query, db) == string_execute_query(query, db)

\* PostgreSQLOperations::execute_query
postgres_execute_query(query, db) == string_execute_query(query, db)

\* The dyn DatabaseOperations call: the executor of the pool's backend.
execute_query(backend, query, db) ==
    CASE backend = "SQLite" -> sqlite_execute_query(query, db)
      [] backend = "MySQL" -> mysql_execute_query(query, db)
      [] backend = "PostgreSQL" -> postgres_execute_query(query, db)

\* check_connection answering Ok(false) when the statement fails
check_connection_false(db) ==
    IF ~db.ok THEN [ok |-> TRUE, value |-> FALSE, err |-> ""]
    ELSE [ok |-> TRUE, value |-> TRUE, err |-> ""]

\* check_connection, the same on the three backends: SELECT 1, "?", Ok(true).
check_connection(db) ==
    IF ~db.ok THEN [ok |-> FALSE, value |-> FALSE, err |-> ErrDriver]
    ELSE [ok |-> TRUE, value |-> TRUE, err |-> ""]

(***************************************************************************)
(* Inputs                                                                  *)
(***************************************************************************)
Payloads ==
    { [s |-> <<"a">>, b |-> <<97>>, i |-> 7, f |-> 15,
       ty |-> <<"D", "A", "T", "E">>],
      [s |-> <<>>, b |-> <<255, 0>>, i |-> -12, f |-> -20,
       ty |-> <<"J", "S", "O", "N">>],
      [s |-> <<"h", "i">>, b |-> <<104, 105, 33>>, i |-> 0, f |-> 5,
       ty |-> <<"D", "E", "C", "I", "M", "A", "L">>],
      [s |-> <<"x">>, b |-> <<0, 16, 131, 255>>, i |-> 3, f |-> 0,
       ty |-> <<"B", "L", "O", "B">>] }

Cell(null, ok, p) ==
    [null |-> null, ok |-> ok, s |-> p.s, b |-> p.b, i |-> p.i, f |-> p.f,
     ty |-> p.ty]

SomePayload == CHOOSE p \in Payloads : p.i = 7

NullCell == Cell(TRUE, {}, SomePayload)
TextCell == Cell(FALSE, {"String", "Bytes"}, SomePayload)
IntCell == Cell(FALSE, {"I64"}, SomePayload)

Cells == {NullCell} \cup {Cell(FALSE, ok, p) : ok \in SUBSET Decoders, p \in Payloads}
CoreCells == {NullCell, TextCell, IntCell}

ColNames == {"id", "name"}

\* r rows over the same c projected columns
Grids(r, c, cs) ==
    { [n \in 1..r |-> [columns |-> cols, cells |-> grid[n]]] :
        cols \in [1..c -> ColNames], grid \in [1..r -> [1..c -> cs]] }

Shapes == {rc \in (0..MaxRows) \X (0..MaxCols) : rc[1] * rc[2] <= MaxCells}

\* one cell of any kind, or a grid of the core kinds
RowSets ==
    Grids(1, 1, Cells)
    \cup UNION { Grids(rc[1], rc[2], CoreCells) : rc \in Shapes }

DbErr == [ok |-> FALSE, rows |-> <<>>, affected |-> 0]
DbRows(rows) == [ok |-> TRUE, rows |-> rows, affected |-> 0]
DbAffected(n) == [ok |-> TRUE, rows |-> <<>>, affected |-> n]

\* a statement that both returns rows and changes rows: fetch_all gives the
\* rows, execute the count
DbBoth(rows, n) == [ok |-> TRUE, rows |-> rows, affected |-> n]

\* what the database can answer to a statement: an error, rows, or a count
DbAnswers ==
    {DbErr} \cup {DbRows(rows) : rows \in RowSets}
    \cup {DbAffected(n) : n \in 0..MaxAffected}
    \cup {DbBoth(rows, n) : rows \in Grids(MaxRows, 1, {TextCell}),
                            n \in 1..MaxAffected}

Q_select1 == <<"S", "E", "L", "E", "C", "T", " ", "1">>
Q_padded == <<" ", "\t", "s", "e", "l", "e", "c", "t", "\n">>
Q_mixed == <<"S", "e", "L", "e", "c", "T">>
Q_insert == <<"I", "N", "S", "E", "R", "T">>
Q_selec == <<"s", "e", "l", "e", "c">>
Q_with == <<"w", "i", "t", "h", " ", "s", "e", "l", "e", "c", "t">>

Queries == {Q_select1, Q_padded, Q_mixed, Q_insert, Q_selec, Q_with, <<>>}

ExecInputs == [backend : DatabaseType, query : Queries, db : DbAnswers]

\* a pool of some backend and what its database answers to SELECT 1
CheckInputs == [backend : DatabaseType, db : DbAnswers]

ConnFragments ==
    { S_sqlite, S_mysql, S_mysql_url, S_postgres, S_postgresql_url,
      <<"p", "o", "s", "t", "g", "r", "e", "s", "q", "l", ":">>,
      <<"M", "Y", "S", "Q", "L", ":">>, <<"x">>, <<"/", "/", "h">> }

ConnStrings ==
    { Concat(fs) : fs \in UNION { [1..n -> ConnFragments] : n \in 0..MaxFrags } }

(***************************************************************************)
(* Code lenses: SqlAst::code_lens                                          *)
(***************************************************************************)
\* the variants of sqlparser's Statement that get a lens, and some that
\* do not
LensKinds == {"Query", "Insert", "Update", "Delete", "CreateTable"}
OtherKinds == {"Drop", "AlterTable"}
StatementKinds == LensKinds \cup OtherKinds

\* the title, whose first character is the emoji U+1F63C
S_run_sql_title == <<"U+1F63C", " ", "R", "u", "n", " ", "S", "Q", "L">>
CLIENT_EXECUTE_COMMAND == "sql.execute"

\* a parsed statement: its variant, what statement.to_string() renders and
\* its span (lines count from 1)
Spans ==
    { [start_line |-> 1, end_line |-> 1, end_column |-> 9],
      [start_line |-> 2, end_line |-> 4, end_column |-> 3] }
Statements == [kind : StatementKinds, text : {Q_select1, Q_insert}, span : Spans]

\* the CodeLens pushed for one statement
Lens(statement) ==
    [range |-> [start |-> [line |-> statement.span.start_line - 1,
                           character |-> 0],
                end |-> [line |-> statement.span.end_line - 1,
                         character |-> statement.span.end_column]],
     command |-> [title |-> S_run_sql_title,
                  command |-> CLIENT_EXECUTE_COMMAND,
                  arguments |-> <<JString(statement.text)>>]]

\* code_lens giving every statement a lens
RECURSIVE code_lens_every(_)
code_lens_every(statements) ==
    IF statements = <<>> THEN <<>>
    ELSE <<Lens(Head(statements))>> \o code_lens_every(Tail(statements))

\* the loop over the statements: a lens is pushed for the five variants of
\* the match arm, nothing for the others
RECURSIVE code_lens(_)
code_lens(statements) ==
    IF statements = <<>> THEN <<>>
    ELSE (IF Head(statements).kind \in LensKinds
          THEN <<Lens(Head(statements))>> ELSE <<>>)
         \o code_lens(Tail(statements))

LensInputs == UNION { [1..n -> Statements] : n \in 0..MaxStmts }

(***************************************************************************)
(* Commands                                                                *)
(***************************************************************************)
ExecuteCmd == "SERVER_EXECUTE_COMMAND"
CheckCmd == "SERVER_CHECK_CONNECTION"

\* connection_id is "" when the request leaves it out (#[serde(default)])
Ids == {"", "c1"}

CsSqlite == S_sqlite \o <<"m">>
CsMysql == S_mysql_url \o <<"h">>
CmdConnStrings == {CsSqlite, CsMysql, <<>>}
CmdQueries == {Q_select1, Q_insert}

TextRow == <<[columns |-> <<"id">>, cells |-> <<TextCell>>]>>
IntRow == <<[columns |-> <<"id">>, cells |-> <<IntCell>>]>>
CmdDbAnswers == {DbErr, DbRows(TextRow), DbRows(IntRow), DbAffected(1)}

\* params.arguments as the handlers read it: a list whose first element is
\* an object the parameter struct deserializes from, or an empty list, or a
\* first element that is no object, or an object without a query
ArgumentLists == {"object", "empty list", "not an object", "object without query"}

Requests ==
    [command : {ExecuteCmd}, connection_id : Ids,
     connection_string : CmdConnStrings, query : CmdQueries,
     arguments : {"object"}]
    \cup [command : {CheckCmd}, connection_id : Ids,
          connection_string : CmdConnStrings, query : {<<>>},
          arguments : {"object"}]

\* a command name the server does not register, and the requests that
\* name it or carry arguments the named command cannot read (an object
\* without a query is a check-connection request with every field defaulted)
UnknownCmd == "sql.unknown"
MalformedRequests ==
    { r \in [command : {ExecuteCmd, CheckCmd, UnknownCmd}, connection_id : {""},
             connection_string : {<<>>}, query : {<<>>},
             arguments : ArgumentLists] :
        /\ r.command # UnknownCmd => r.arguments # "object"
        /\ r.command = CheckCmd => r.arguments # "object without query" }

NoRequest ==
    [command |-> "", connection_id |-> "", connection_string |-> <<>>,
     query |-> <<>>, arguments |-> "object"]

\* Option<Arc<ConnectionPool>>: the pool is named by the handle that built
\* it and the run of from_options that did.
NonePool == [some |-> FALSE, backend |-> NoBackend, pool |-> <<>>]
SomePool(backend, h, run) == [some |-> TRUE, backend |-> backend, pool |-> <<h, run>>]

NoData == [columns |-> <<>>, rows |-> JNull, affected_rows |-> 0, result |-> FALSE]
NoResponse == [kind |-> "none", code |-> "", message |-> "", data |-> NoData]
\* Ok(Some(CommandResult)) through execute_command (the measured
\* execution_time is left out)
ResultResponse(data) == [kind |-> "result", code |-> "", message |-> "", data |-> data]
\* Err(e) through the map_err of execute_command
ErrorResponse(e) ==
    [kind |-> "error", code |-> "InternalError", message |-> e, data |-> NoData]
\* the Err of execute_command when no registered command has the name
NotFoundResponse ==
    [kind |-> "error", code |-> "MethodNotFound", message |-> "Command not found",
     data |-> NoData]
\* the handler panicked: no response
Panicked(e) == [kind |-> "panic", code |-> "", message |-> e, data |-> NoData]

ErrNoPool == "Failed to get pool from connection"
ErrUnwrapNone == "called Option::unwrap() on a None value"
ErrIndex == "index out of bounds: the len is 0 but the index is 0"
ErrDeserialize == "serde_json error"

(***************************************************************************)
(* Initial state                                                           *)
(***************************************************************************)
CacheInit ==
    /\ map = [id \in {} |-> 0]
    /\ readers = {}
    /\ writer = {}
    /\ handles = {}
    /\ options = [h \in {} |-> <<>>]
    /\ cell = [h \in {} |-> <<>>]
    /\ permit = [h \in {} |-> {}]
    /\ initRuns = [h \in {} |-> 0]
    /\ madeFor = [h \in {} |-> ""]
    /\ returned = [id \in Ids |-> {}]
    /\ firstOpt = [id \in Ids |-> <<>>]

\* Backend::new: an empty document map; the pool has every connection
\* free; the logger's channel is not made and no forwarding task runs
RestInit ==
    /\ document_map = [u \in {} |-> <<>>]
    /\ doc_log = <<>>
    /\ in_use = 0
    /\ qpc = [q \in Queriers |-> "idle"]
    /\ waited = [q \in Queriers |-> 0]
    /\ LOGGER = FALSE
    /\ chan = <<>>
    /\ lag = 0
    /\ rx = "unspawned"
    /\ forwarded = <<>>
    /\ logged = [early |-> 0, due |-> 0, late |-> 0]

\* Backend::new: a fresh token; no code_lens call is being looked at
SrvInit ==
    /\ cancel = FALSE
    /\ lens_in = <<>> /\ lens_out = <<>>
    /\ RestInit

TaskInit ==
    /\ pc = [t \in Tasks |-> "idle"]
    /\ req = [t \in Tasks |-> NoRequest]
    /\ connect = [t \in Tasks |-> 0]
    /\ pool = [t \in Tasks |-> NonePool]
    /\ resp = [t \in Tasks |-> NoResponse]
    /\ calls = 0

Init ==
    /\ CacheInit
    /\ TaskInit
    /\ SrvInit
    /\ conn_in = <<>> /\ conn_out = <<>>
    /\ exec_in = <<>> /\ exec_out = <<>>

\* a panic in a handler unwinds through Server::serve and ends the process
Alive == \A t \in Tasks : pc[t] # "panicked"

(***************************************************************************)
(* execute_command up to the handler's call of from_cache                  *)
(***************************************************************************)
Begin(t, r) ==
    /\ req' = [req EXCEPT ![t] = r]
    /\ pc' = [pc EXCEPT ![t] = "fc_read"]
    /\ calls' = calls + 1
    /\ firstOpt' = IF firstOpt[r.connection_id] = <<>>
                   THEN [firstOpt EXCEPT ![r.connection_id] = <<r.connection_string>>]
                   ELSE firstOpt
    /\ UNCHANGED <<map, readers, writer, handles, options, cell, permit,
                   initRuns, madeFor, returned, connect, pool, resp>>
    /\ UNCHANGED fnVars
    /\ UNCHANGED srvVars

Start(t) ==
    /\ Alive
    /\ pc[t] = "idle"
    /\ calls < MaxCalls
    /\ \E r \in Requests : Begin(t, r)

\* execute_command on a request that does not reach from_cache: no command
\* of that name (the find gives None), or a handler that stops at
\* from_value(params.arguments[0].clone())?
ExecuteCommandMalformed(t) ==
    /\ Alive
    /\ pc[t] = "idle"
    /\ calls < MaxCalls
    /\ \E r \in MalformedRequests :
         /\ req' = [req EXCEPT ![t] = r]
         /\ IF r.command = UnknownCmd
            THEN /\ resp' = [resp EXCEPT ![t] = NotFoundResponse]
                 /\ pc' = [pc EXCEPT ![t] = "done"]
            ELSE IF r.arguments = "empty list"
            THEN /\ resp' = [resp EXCEPT ![t] = Panicked(ErrIndex)]
                 /\ pc' = [pc EXCEPT ![t] = "panicked"]
            ELSE /\ resp' = [resp EXCEPT ![t] = ErrorResponse(ErrDeserialize)]
                 /\ pc' = [pc EXCEPT ![t] = "done"]
    /\ calls' = calls + 1
    /\ UNCHANGED cacheVars
    /\ UNCHANGED <<connect, pool>>
    /\ UNCHANGED fnVars
    /\ UNCHANGED srvVars

\* the same, in a run that serves one command at a time
StartSeq(t) ==
    /\ \A u \in Tasks : pc[u] = "idle"
    /\ Start(t)

\* a check-connection command begins: its handler goes straight to
\* from_cache with the request's identifier and connection string
StartResolve(t) ==
    /\ Alive
    /\ pc[t] = "idle"
    /\ calls < MaxCalls
    /\ \E r \in {x \in Requests : x.command = CheckCmd} : Begin(t, r)

(***************************************************************************)
(* from_cache                                                              *)
(***************************************************************************)
\* DB_POOL_MAP.read().await, first block
FcRead(t) ==
    /\ Alive
    /\ pc[t] = "fc_read"
    /\ writer = {}
    /\ readers' = readers \cup {t}
    /\ pc' = [pc EXCEPT ![t] = "fc_get"]
    /\ UNCHANGED <<map, writer, handles, options, cell, permit, initRuns,
                   madeFor, returned, firstOpt, req, connect, pool, resp, calls>>
    /\ UNCHANGED fnVars
    /\ UNCHANGED srvVars

\* FcGet with the lookup lost: every call goes on to the insert
FcGetAlwaysMiss(t) ==
    /\ Alive
    /\ pc[t] = "fc_get"
    /\ readers' = readers \ {t}
    /\ pc' = [pc EXCEPT ![t] = "fc_write"]
    /\ UNCHANGED <<map, writer, handles, options, cell, permit, initRuns,
                   madeFor, returned, firstOpt, req, connect, pool, resp, calls>>
    /\ UNCHANGED fnVars
    /\ UNCHANGED srvVars

\* FcGet keeping the read guard over the insert: on a miss the caller goes
\* for the write lock while it still holds the read lock
FcGetKeepsGuard(t) ==
    /\ Alive
    /\ pc[t] = "fc_get"
    /\ IF req[t].connection_id \in DOMAIN map
       THEN /\ connect' = [connect EXCEPT ![t] = map[req[t].connection_id]]
            /\ returned' = [returned EXCEPT ![req[t].connection_id] =
                                @ \cup {map[req[t].connection_id]}]
            /\ pc' = [pc EXCEPT ![t] = "gp_check"]
            /\ readers' = readers \ {t}
       ELSE /\ pc' = [pc EXCEPT ![t] = "fc_write"]
            /\ UNCHANGED <<connect, returned, readers>>
    /\ UNCHANGED <<map, writer, handles, options, cell, permit, initRuns,
                   madeFor, firstOpt, req, pool, resp, calls>>
    /\ UNCHANGED fnVars
    /\ UNCHANGED srvVars

\* map.get(id): return the handle found, or go on to the insert; the read
\* guard is dropped either way
FcGet(t) ==
    /\ Alive
    /\ pc[t] = "fc_get"
    /\ readers' = readers \ {t}
    /\ IF req[t].connection_id \in DOMAIN map
       THEN /\ connect' = [connect EXCEPT ![t] = map[req[t].connection_id]]
            /\ returned' = [returned EXCEPT ![req[t].connection_id] =
                                @ \cup {map[req[t].connection_id]}]
            /\ pc' = [pc EXCEPT ![t] = "gp_check"]
       ELSE /\ pc' = [pc EXCEPT ![t] = "fc_write"]
            /\ UNCHANGED <<connect, returned>>
    /\ UNCHANGED <<map, writer, handles, options, cell, permit, initRuns,
                   madeFor, firstOpt, req, pool, resp, calls>>
    /\ UNCHANGED fnVars
    /\ UNCHANGED srvVars

\* DB_POOL_MAP.write().await
FcWrite(t) ==
    /\ Alive
    /\ pc[t] = "fc_write"
    /\ writer = {} /\ readers = {}
    /\ writer' = {t}
    /\ pc' = [pc EXCEPT ![t] = "fc_insert"]
    /\ UNCHANGED <<map, readers, handles, options, cell, permit, initRuns,
                   madeFor, returned, firstOpt, req, connect, pool, resp, calls>>
    /\ UNCHANGED fnVars
    /\ UNCHANGED srvVars

\* FcInsert building the pool at once: the new handle's cell is filled by
\* from_options before the entry is made
FcInsertEager(t) ==
    /\ Alive
    /\ pc[t] = "fc_insert"
    /\ \E accepted \in BOOLEAN :
         LET h == Cardinality(handles) + 1
             id == req[t].connection_id
             r == from_options(req[t].connection_string, accepted)
             v == IF r.ok THEN SomePool(r.backend, h, 1) ELSE NonePool
         IN  /\ handles' = handles \cup {h}
             /\ options' = options @@ (h :> req[t].connection_string)
             /\ cell' = cell @@ (h :> <<v>>)
             /\ permit' = permit @@ (h :> {})
             /\ initRuns' = initRuns @@ (h :> 1)
             /\ madeFor' = madeFor @@ (h :> id)
             /\ map' = [x \in (DOMAIN map) \cup {id} |->
                          IF x = id THEN h ELSE map[x]]
    /\ writer' = {}
    /\ pc' = [pc EXCEPT ![t] = "fc_read2"]
    /\ UNCHANGED <<readers, returned, firstOpt, req, connect, pool, resp, calls>>
    /\ UNCHANGED fnVars
    /\ UNCHANGED srvVars

\* FcInsert losing the entry: the handle is made and the write lock given
\* up, but nothing is put into the map
FcInsertDropped(t) ==
    /\ Alive
    /\ pc[t] = "fc_insert"
    /\ LET h == Cardinality(handles) + 1
           id == req[t].connection_id
       IN  /\ handles' = handles \cup {h}
           /\ options' = options @@ (h :> req[t].connection_string)
           /\ cell' = cell @@ (h :> <<>>)
           /\ permit' = permit @@ (h :> {})
           /\ initRuns' = initRuns @@ (h :> 0)
           /\ madeFor' = madeFor @@ (h :> id)
    /\ writer' = {}
    /\ pc' = [pc EXCEPT ![t] = "fc_read2"]
    /\ UNCHANGED <<map, readers, returned, firstOpt, req, connect, pool, resp,
                   calls>>
    /\ UNCHANGED fnVars
    /\ UNCHANGED srvVars

\* .insert(id.to_string(), Arc::new(db_connection)): a new handle with the
\* caller's options and an empty OnceCell takes the entry of id
FcInsert(t) ==
    /\ Alive
    /\ pc[t] = "fc_insert"
    /\ LET h == Cardinality(handles) + 1
           id == req[t].connection_id
       IN  /\ handles' = handles \cup {h}
           /\ options' = options @@ (h :> req[t].connection_string)
           /\ cell' = cell @@ (h :> <<>>)
           /\ permit' = permit @@ (h :> {})
           /\ initRuns' = initRuns @@ (h :> 0)
           /\ madeFor' = madeFor @@ (h :> id)
           /\ map' = [x \in (DOMAIN map) \cup {id} |-> IF x = id THEN h ELSE map[x]]
    /\ writer' = {}
    /\ pc' = [pc EXCEPT ![t] = "fc_read2"]
    /\ UNCHANGED <<readers, returned, firstOpt, req, connect, pool, resp, calls>>
    /\ UNCHANGED fnVars
    /\ UNCHANGED srvVars

\* DB_POOL_MAP.read().await of the last line
FcRead2(t) ==
    /\ Alive
    /\ pc[t] = "fc_read2"
    /\ writer = {}
    /\ readers' = readers \cup {t}
    /\ pc' = [pc EXCEPT ![t] = "fc_get2"]
    /\ UNCHANGED <<map, writer, handles, options, cell, permit, initRuns,
                   madeFor, returned, firstOpt, req, connect, pool, resp, calls>>
    /\ UNCHANGED fnVars
    /\ UNCHANGED srvVars

\* Arc::clone(....get(id).unwrap())
FcGet2(t) ==
    /\ Alive
    /\ pc[t] = "fc_get2"
    /\ readers' = readers \ {t}
    /\ IF req[t].connection_id \in DOMAIN map
       THEN /\ connect' = [connect EXCEPT ![t] = map[req[t].connection_id]]
            /\ returned' = [returned EXCEPT ![req[t].connection_id] =
                                @ \cup {map[req[t].connection_id]}]
            /\ pc' = [pc EXCEPT ![t] = "gp_check"]
            /\ UNCHANGED resp
       ELSE /\ resp' = [resp EXCEPT ![t] = Panicked(ErrUnwrapNone)]
            /\ pc' = [pc EXCEPT ![t] = "panicked"]
            /\ UNCHANGED <<connect, returned>>
    /\ UNCHANGED <<map, writer, handles, options, cell, permit, initRuns,
                   madeFor, firstOpt, req, pool, calls>>
    /\ UNCHANGED fnVars
    /\ UNCHANGED srvVars

(***************************************************************************)
(* DBConnection::get_pool: self.pool.get_or_init(..).await.clone()         *)
(***************************************************************************)
\* GpCheck retrying a failed initialisation: a cell holding None is emptied
GpCheckRetry(t) ==
    /\ Alive
    /\ pc[t] = "gp_check"
    /\ IF cell[connect[t]] # <<>> /\ cell[connect[t]][1].some
       THEN /\ pool' = [pool EXCEPT ![t] = cell[connect[t]][1]]
            /\ pc' = [pc EXCEPT ![t] = "call"]
            /\ UNCHANGED cell
       ELSE /\ pc' = [pc EXCEPT ![t] = "gp_acquire"]
            /\ cell' = [cell EXCEPT ![connect[t]] = <<>>]
            /\ UNCHANGED pool
    /\ UNCHANGED <<map, readers, writer, handles, options, permit, initRuns,
                   madeFor, returned, firstOpt>>
    /\ UNCHANGED <<req, connect, resp, calls>>
    /\ UNCHANGED fnVars
    /\ UNCHANGED srvVars

\* get_or_init, fast path: a cell that is set is returned as it is
GpCheck(t) ==
    /\ Alive
    /\ pc[t] = "gp_check"
    /\ IF cell[connect[t]] # <<>>
       THEN /\ pool' = [pool EXCEPT ![t] = cell[connect[t]][1]]
            /\ pc' = [pc EXCEPT ![t] = "call"]
       ELSE /\ pc' = [pc EXCEPT ![t] = "gp_acquire"]
            /\ UNCHANGED pool
    /\ UNCHANGED cacheVars
    /\ UNCHANGED <<req, connect, resp, calls>>
    /\ UNCHANGED fnVars
    /\ UNCHANGED srvVars

\* GpAcquire without the permit: the initialiser starts although another
\* caller is running it
GpAcquireUnguarded(t) ==
    /\ Alive
    /\ pc[t] = "gp_acquire"
    /\ IF cell[connect[t]] # <<>>
       THEN /\ pool' = [pool EXCEPT ![t] = cell[connect[t]][1]]
            /\ pc' = [pc EXCEPT ![t] = "call"]
            /\ UNCHANGED permit
       ELSE /\ permit' = [permit EXCEPT ![connect[t]] = @ \cup {t}]
            /\ pc' = [pc EXCEPT ![t] = "gp_init"]
            /\ UNCHANGED pool
    /\ UNCHANGED <<map, readers, writer, handles, options, cell, initRuns,
                   madeFor, returned, firstOpt>>
    /\ UNCHANGED <<req, connect, resp, calls>>
    /\ UNCHANGED fnVars
    /\ UNCHANGED srvVars

\* get_or_init, slow path: wait for the cell's one permit, look at the cell
\* again, and only then run the initialiser
GpAcquire(t) ==
    /\ Alive
    /\ pc[t] = "gp_acquire"
    /\ permit[connect[t]] = {}
    /\ IF cell[connect[t]] # <<>>
       THEN /\ pool' = [pool EXCEPT ![t] = cell[connect[t]][1]]
            /\ pc' = [pc EXCEPT ![t] = "call"]
            /\ UNCHANGED permit
       ELSE /\ permit' = [permit EXCEPT ![connect[t]] = @ \cup {t}]
            /\ pc' = [pc EXCEPT ![t] = "gp_init"]
            /\ UNCHANGED pool
    /\ UNCHANGED <<map, readers, writer, handles, options, cell, initRuns,
                   madeFor, returned, firstOpt>>
    /\ UNCHANGED <<req, connect, resp, calls>>
    /\ UNCHANGED fnVars
    /\ UNCHANGED srvVars

\* the initialiser: from_options on the handle's own options, Ok(pool) kept
\* as Some(Arc::new(pool)) and Err(_) as None; the cell is set and the permit
\* given up
GpInit(t) ==
    /\ Alive
    /\ pc[t] = "gp_init"
    /\ \E accepted \in BOOLEAN :
         LET h == connect[t]
             r == from_options(options[h], accepted)
             v == IF r.ok THEN SomePool(r.backend, h, initRuns[h] + 1)
                  ELSE NonePool
         IN  /\ cell' = [cell EXCEPT ![h] = <<v>>]
             /\ initRuns' = [initRuns EXCEPT ![h] = @ + 1]
             /\ permit' = [permit EXCEPT ![h] = @ \ {t}]
             /\ pool' = [pool EXCEPT ![t] = v]
    /\ pc' = [pc EXCEPT ![t] = "call"]
    /\ UNCHANGED <<map, readers, writer, handles, options, madeFor, returned,
                   firstOpt>>
    /\ UNCHANGED <<req, connect, resp, calls>>
    /\ UNCHANGED fnVars
    /\ UNCHANGED srvVars

(***************************************************************************)
(* The two handlers after get_pool, and execute_command's conversion       *)
(***************************************************************************)
\* QueryResult with the count left at zero
QueryResultNoCount(r) ==
    [columns |-> <<>>, rows |-> r.value, affected_rows |-> 0, result |-> FALSE]

QueryResult(r) ==
    [columns |-> <<>>, rows |-> r.value, affected_rows |-> r.total,
     result |-> FALSE]

\* ExecuteCommand::execute_sql_query from ok_or_else on
ExecuteSqlQuery(t) ==
    /\ Alive
    /\ pc[t] = "call"
    /\ req[t].command = ExecuteCmd
    /\ \E db \in CmdDbAnswers :
         resp' = [resp EXCEPT ![t] =
                    IF ~pool[t].some THEN ErrorResponse(ErrNoPool)
                    ELSE LET r == execute_query(pool[t].backend, req[t].query, db)
                         IN  IF r.ok THEN ResultResponse(QueryResult(r))
                             ELSE ErrorResponse(r.err)]
    /\ pc' = [pc EXCEPT ![t] = "done"]
    /\ UNCHANGED cacheVars
    /\ UNCHANGED <<req, connect, pool, calls>>
    /\ UNCHANGED fnVars
    /\ UNCHANGED srvVars

\* CheckConnectionCommand::handler from get_pool().await.unwrap() on
CheckConnection(t) ==
    /\ Alive
    /\ pc[t] = "call"
    /\ req[t].command = CheckCmd
    /\ \E db \in CmdDbAnswers :
         IF ~pool[t].some
         THEN /\ resp' = [resp EXCEPT ![t] = Panicked(ErrUnwrapNone)]
              /\ pc' = [pc EXCEPT ![t] = "panicked"]
         ELSE /\ resp' = [resp EXCEPT ![t] =
                            LET r == check_connection(db)
                            IN  IF r.ok
                                THEN ResultResponse([NoData EXCEPT !.result = r.value])
                                ELSE ErrorResponse(r.err)]
              /\ pc' = [pc EXCEPT ![t] = "done"]
    /\ UNCHANGED cacheVars
    /\ UNCHANGED <<req, connect, pool, calls>>
    /\ UNCHANGED fnVars
    /\ UNCHANGED srvVars

\* the response is sent and the task's locals are dropped
Finish(t) ==
    /\ Alive
    /\ pc[t] = "done"
    /\ pc' = [pc EXCEPT ![t] = "idle"]
    /\ req' = [req EXCEPT ![t] = NoRequest]
    /\ connect' = [connect EXCEPT ![t] = 0]
    /\ pool' = [pool EXCEPT ![t] = NonePool]
    /\ resp' = [resp EXCEPT ![t] = NoResponse]
    /\ UNCHANGED cacheVars
    /\ UNCHANGED calls
    /\ UNCHANGED fnVars
    /\ UNCHANGED srvVars

(***************************************************************************)
(* Backend::shutdown                                                        *)
(***************************************************************************)
\* Shutdown emptying the cache
ShutdownClears ==
    /\ Alive
    /\ ~cancel
    /\ cancel' = TRUE
    /\ map' = [id \in {} |-> 0]
    /\ UNCHANGED <<readers, writer, handles, options, cell, permit, initRuns,
                   madeFor, returned, firstOpt>>
    /\ UNCHANGED taskVars
    /\ UNCHANGED fnVars
    /\ UNCHANGED <<lens_in, lens_out, restVars>>

\* Shutdown dropping the commands in flight
ShutdownAborts ==
    /\ Alive
    /\ ~cancel
    /\ cancel' = TRUE
    /\ pc' = [t \in Tasks |-> "idle"]
    /\ UNCHANGED cacheVars
    /\ UNCHANGED <<req, connect, pool, resp, calls>>
    /\ UNCHANGED fnVars
    /\ UNCHANGED <<lens_in, lens_out, restVars>>

\* the shutdown request: the token is cancelled, which ends the log
\* forwarding task; the cache and the commands in flight are left alone
Shutdown ==
    /\ Alive
    /\ ~cancel
    /\ cancel' = TRUE
    /\ UNCHANGED cacheVars
    /\ UNCHANGED taskVars
    /\ UNCHANGED fnVars
    /\ UNCHANGED <<lens_in, lens_out, restVars>>

(***************************************************************************)
(* Documents: did_open, did_change, did_close and the code_lens request    *)
(***************************************************************************)
Uris == {"a.sql", "b.sql"}

\* document texts: one statement, two statements on two lines, and a text
\* that is no SQL
T_two == Q_select1 \o <<";", "\n">> \o Q_select1
DocTexts == {Q_select1, T_two, Q_selec}

\* SqlParser::parse: what parse_sql gives for the texts of DocTexts
parse(sql) ==
    LET st(line) == [kind |-> "Query", text |-> Q_select1,
                     span |-> [start_line |-> line, end_line |-> line,
                               end_column |-> 9]]
    IN  CASE sql = Q_select1 -> [ok |-> TRUE, ast |-> <<st(1)>>]
          [] sql = T_two -> [ok |-> TRUE, ast |-> <<st(1), st(2)>>]
          [] OTHER -> [ok |-> FALSE, ast |-> <<>>]

\* params.content_changes of a did_change
ContentChanges ==
    {<<>>} \cup {<<x>> : x \in DocTexts}
    \cup {<<Q_select1, Q_selec>>, <<Q_selec, T_two>>}

DocEvent(op, uri, changes) == [op |-> op, uri |-> uri, changes |-> changes]

\* a handler panicked at code_lens_refresh().await.unwrap(): the server is
\* gone
DocAlive ==
    IF doc_log = <<>> THEN TRUE ELSE doc_log[Len(doc_log)].op # "panic"

\* the handler has run; refreshed says whether the client answered the
\* refresh request with Ok
Handled(e, refreshed) ==
    doc_log' = doc_log \o <<e>>
               \o (IF refreshed THEN <<>> ELSE <<DocEvent("panic", e.uri, <<>>)>>)

\* The handlers come to the write lock of the map in the order of their
\* notifications and the lock serves them in that order: one step each.
did_open(uri, text) ==
    /\ DocAlive
    /\ Len(doc_log) < MaxEvents
    /\ IF parse(text).ok
       THEN /\ document_map' = MapInsert(document_map, uri, parse(text).ast)
            /\ \E refreshed \in BOOLEAN :
                  Handled(DocEvent("did_open", uri, <<text>>), refreshed)
       ELSE /\ document_map' = document_map
            /\ Handled(DocEvent("did_open", uri, <<text>>), TRUE)
    /\ UNCHANGED <<cacheVars, taskVars, fnVars>>
    /\ UNCHANGED <<cancel, lens_in, lens_out, connVars, logVars>>

\* did_change dropping the entry when the new text does not parse
did_change_drops(uri, changes) ==
    /\ DocAlive
    /\ Len(doc_log) < MaxEvents
    /\ IF changes # <<>> /\ parse(changes[1]).ok
       THEN /\ document_map' = MapInsert(document_map, uri, parse(changes[1]).ast)
            /\ \E refreshed \in BOOLEAN :
                  Handled(DocEvent("did_change", uri, changes), refreshed)
       ELSE /\ document_map' = [u \in DOMAIN document_map \ {uri} |-> document_map[u]]
            /\ Handled(DocEvent("did_change", uri, changes), TRUE)
    /\ UNCHANGED <<cacheVars, taskVars, fnVars>>
    /\ UNCHANGED <<cancel, lens_in, lens_out, connVars, logVars>>

\* content_changes.first(), parse, insert
did_change(uri, changes) ==
    /\ DocAlive
    /\ Len(doc_log) < MaxEvents
    /\ IF changes # <<>> /\ parse(changes[1]).ok
       THEN /\ document_map' = MapInsert(document_map, uri, parse(changes[1]).ast)
            /\ \E refreshed \in BOOLEAN :
                  Handled(DocEvent("did_change", uri, changes), refreshed)
       ELSE /\ document_map' = document_map
            /\ Handled(DocEvent("did_change", uri, changes), TRUE)
    /\ UNCHANGED <<cacheVars, taskVars, fnVars>>
    /\ UNCHANGED <<cancel, lens_in, lens_out, connVars, logVars>>

did_close(uri) ==
    /\ DocAlive
    /\ Len(doc_log) < MaxEvents
    /\ document_map' = [u \in DOMAIN document_map \ {uri} |-> document_map[u]]
    /\ Handled(DocEvent("did_close", uri, <<>>), TRUE)
    /\ UNCHANGED <<cacheVars, taskVars, fnVars>>
    /\ UNCHANGED <<cancel, lens_in, lens_out, connVars, logVars>>

\* the code_lens request: the lenses of the stored AST, or None when the
\* map has no entry for the uri
code_lens_request(uri) ==
    /\ DocAlive
    /\ Len(doc_log) < MaxEvents
    /\ lens_out' = <<IF uri \in DOMAIN document_map
                     THEN [ok |-> TRUE, some |-> TRUE,
                           lenses |-> code_lens(document_map[uri])]
                     ELSE [ok |-> TRUE, some |-> FALSE, lenses |-> <<>>]>>
    /\ Handled(DocEvent("code_lens", uri, <<>>), TRUE)
    /\ UNCHANGED <<cacheVars, taskVars, fnVars>>
    /\ UNCHANGED <<cancel, lens_in, document_map, connVars, logVars>>

NextDocs ==
    \E uri \in Uris :
        \/ \E text \in DocTexts : did_open(uri, text)
        \/ \E changes \in ContentChanges : did_change(uri, changes)
        \/ did_close(uri)
        \/ code_lens_request(uri)
SpecDocs == Init /\ [][NextDocs]_vars

(***************************************************************************)
(* The pool of one handle: PoolOptions of DBSet::create, as sqlx serves it *)
(***************************************************************************)
\* .max_connections(5) and .acquire_timeout(Duration::from_secs(30)), the
\* same in the three create functions
max_connections == 5
acquire_timeout == 30

\* pool_acquire on a pool without a limit: every query opens a connection
pool_acquire_unbounded(q) ==
    /\ qpc[q] = "idle"
    /\ in_use' = in_use + 1
    /\ qpc' = [qpc EXCEPT ![q] = "running"]
    /\ waited' = [waited EXCEPT ![q] = 0]
    /\ UNCHANGED <<cacheVars, taskVars, fnVars>>
    /\ UNCHANGED <<cancel, lens_in, lens_out, docVars, logVars>>

\* a query starts: fetch_all / execute asks the pool for a connection and
\* takes one when fewer than max_connections are checked out (an idle one,
\* or a new one opened lazily); otherwise it waits
pool_acquire(q) ==
    /\ qpc[q] = "idle"
    /\ IF in_use < max_connections
       THEN /\ in_use' = in_use + 1
            /\ qpc' = [qpc EXCEPT ![q] = "running"]
       ELSE /\ in_use' = in_use
            /\ qpc' = [qpc EXCEPT ![q] = "waiting"]
    /\ waited' = [waited EXCEPT ![q] = 0]
    /\ UNCHANGED <<cacheVars, taskVars, fnVars>>
    /\ UNCHANGED <<cancel, lens_in, lens_out, docVars, logVars>>

\* a waiting query is given a connection that has been released
pool_grant(q) ==
    /\ qpc[q] = "waiting"
    /\ in_use < max_connections
    /\ in_use' = in_use + 1
    /\ qpc' = [qpc EXCEPT ![q] = "running"]
    /\ waited' = [waited EXCEPT ![q] = 0]
    /\ UNCHANGED <<cacheVars, taskVars, fnVars>>
    /\ UNCHANGED <<cancel, lens_in, lens_out, docVars, logVars>>

\* a second passes with the pool full: every waiting query has waited one
\* second more (a query at the deadline fails first)
pool_tick ==
    /\ in_use = max_connections
    /\ \E q \in Queriers : qpc[q] = "waiting"
    /\ \A q \in Queriers : qpc[q] = "waiting" => waited[q] < acquire_timeout
    /\ waited' = [q \in Queriers |->
                    IF qpc[q] = "waiting" THEN waited[q] + 1 ELSE waited[q]]
    /\ UNCHANGED <<in_use, qpc>>
    /\ UNCHANGED <<cacheVars, taskVars, fnVars>>
    /\ UNCHANGED <<cancel, lens_in, lens_out, docVars, logVars>>

\* the acquire timeout of a waiting query is over: the query fails with
\* Error::PoolTimedOut
pool_timeout(q) ==
    /\ qpc[q] = "waiting"
    /\ waited[q] = acquire_timeout
    /\ qpc' = [qpc EXCEPT ![q] = "timed out"]
    /\ UNCHANGED <<in_use, waited>>
    /\ UNCHANGED <<cacheVars, taskVars, fnVars>>
    /\ UNCHANGED <<cancel, lens_in, lens_out, docVars, logVars>>

\* the query is done and its connection goes back to the pool
pool_release(q) ==
    /\ qpc[q] = "running"
    /\ in_use' = in_use - 1
    /\ qpc' = [qpc EXCEPT ![q] = "idle"]
    /\ UNCHANGED waited
    /\ UNCHANGED <<cacheVars, taskVars, fnVars>>
    /\ UNCHANGED <<cancel, lens_in, lens_out, docVars, logVars>>

NextConn ==
    \/ \E q \in Queriers :
          pool_acquire(q) \/ pool_grant(q) \/ pool_timeout(q) \/ pool_release(q)
    \/ pool_tick
SpecConn == Init /\ [][NextConn]_vars

(***************************************************************************)
(* The logger: logger::log, logger::subscribe and the forwarding task      *)
(***************************************************************************)
\* broadcast::channel(100); the channel rounds its capacity up to a power
\* of two and keeps that many messages for a receiver that is behind
channel_capacity == 100
next_power_of_two(n) ==
    LET Powers == {1, 2, 4, 8, 16, 32, 64, 128, 256}
    IN  CHOOSE p \in Powers : p >= n /\ \A r \in Powers : r >= n => p <= r
BufferSlots == next_power_of_two(channel_capacity)

\* initialize: log_message_spawn subscribes, which makes the channel, and
\* spawns the forwarding task, which sits in its select
log_message_spawn ==
    /\ rx = "unspawned"
    /\ LOGGER' = TRUE
    /\ rx' = "select"
    /\ UNCHANGED <<chan, lag, forwarded, logged>>
    /\ UNCHANGED <<cacheVars, taskVars, fnVars>>
    /\ UNCHANGED <<cancel, lens_in, lens_out, docVars, connVars>>

\* tx.send on a channel with a receiver: the message is queued, and when
\* the receiver is BufferSlots behind its oldest message is overwritten
Sent(m) ==
    IF Len(chan) < BufferSlots
    THEN chan' = Append(chan, m) /\ lag' = lag
    ELSE chan' = Append(Tail(chan), m) /\ lag' = lag + 1

\* logger::log.  Without the channel (LOGGER.get() is None) and without a
\* receiver (send gives Err, which is dropped) the message is lost and the
\* caller goes on.  Messages logged between initialize and shutdown are
\* numbered from 1; a message logged after shutdown is 0.
log ==
    /\ IF ~LOGGER
       THEN /\ logged.early < MaxStray
            /\ logged' = [logged EXCEPT !.early = @ + 1]
            /\ UNCHANGED <<chan, lag>>
       ELSE IF cancel
       THEN /\ logged.late < MaxStray
            /\ logged' = [logged EXCEPT !.late = @ + 1]
            /\ IF rx = "stopped" THEN UNCHANGED <<chan, lag>> ELSE Sent(0)
       ELSE /\ logged.due < MaxLogged
            /\ logged' = [logged EXCEPT !.due = @ + 1]
            /\ Sent(logged.due + 1)
    /\ UNCHANGED <<LOGGER, rx, forwarded>>
    /\ UNCHANGED <<cacheVars, taskVars, fnVars>>
    /\ UNCHANGED <<cancel, lens_in, lens_out, docVars, connVars>>

\* the select takes Ok((t, v)) = rx.recv() and the task passes the message
\* to client.log_message
forward ==
    /\ rx = "select"
    /\ lag = 0
    /\ chan # <<>>
    /\ forwarded' = Append(forwarded, Head(chan))
    /\ chan' = Tail(chan)
    /\ UNCHANGED <<LOGGER, lag, rx, logged>>
    /\ UNCHANGED <<cacheVars, taskVars, fnVars>>
    /\ UNCHANGED <<cancel, lens_in, lens_out, docVars, connVars>>

\* rx.recv() gives Err(Lagged(n)): the pattern Ok((t, v)) does not match,
\* the select drops that branch and waits for the cancellation alone
recv_lagged ==
    /\ rx = "select"
    /\ lag > 0
    /\ rx' = "lagged"
    /\ lag' = 0
    /\ UNCHANGED <<LOGGER, chan, forwarded, logged>>
    /\ UNCHANGED <<cacheVars, taskVars, fnVars>>
    /\ UNCHANGED <<cancel, lens_in, lens_out, docVars, connVars>>

\* the select takes cancel.cancelled(): break, and the receiver is dropped
cancelled ==
    /\ rx \in {"select", "lagged"}
    /\ cancel
    /\ rx' = "stopped"
    /\ chan' = <<>>
    /\ lag' = 0
    /\ UNCHANGED <<LOGGER, forwarded, logged>>
    /\ UNCHANGED <<cacheVars, taskVars, fnVars>>
    /\ UNCHANGED <<cancel, lens_in, lens_out, docVars, connVars>>

NextLog ==
    \/ log_message_spawn \/ log \/ forward \/ recv_lagged \/ cancelled
    \/ Shutdown
SpecLog == Init /\ [][NextLog]_vars

(***************************************************************************)
(* Specifications                                                          *)
(***************************************************************************)
Step(t) ==
    \/ FcRead(t) \/ FcGet(t) \/ FcWrite(t) \/ FcInsert(t) \/ FcRead2(t)
    \/ FcGet2(t) \/ GpCheck(t) \/ GpAcquire(t) \/ GpInit(t)
    \/ ExecuteSqlQuery(t) \/ CheckConnection(t) \/ Finish(t)

\* commands served concurrently, as tower-lsp runs them
Next == (\E t \in Tasks : Start(t) \/ Step(t)) \/ Shutdown
Spec == Init /\ [][Next]_vars

\* commands served one after the other
NextSeq == (\E t \in Tasks : StartSeq(t) \/ Step(t)) \/ Shutdown
SpecSeq == Init /\ [][NextSeq]_vars

\* execute_command over every request, the malformed ones included
NextCommand ==
    \E t \in Tasks : Start(t) \/ ExecuteCommandMalformed(t) \/ Step(t)
SpecCommand == Init /\ [][NextCommand]_vars

\* from_cache on its own: concurrent commands up to the return of
\* from_cache
NextCache ==
    (\E t \in Tasks :
        \/ StartResolve(t) \/ FcRead(t) \/ FcGet(t) \/ FcWrite(t) \/ FcInsert(t)
        \/ FcRead2(t) \/ FcGet2(t))
    \/ Shutdown
SpecCache == Init /\ [][NextCache]_vars

\* the same under the scheduling the runtime gives: a task that can run
\* does, and the lock, which queues its waiters, serves each of them
FairCache ==
    \A t \in Tasks :
        /\ SF_vars(FcRead(t)) /\ SF_vars(FcWrite(t)) /\ SF_vars(FcRead2(t))
        /\ WF_vars(FcGet(t)) /\ WF_vars(FcInsert(t)) /\ WF_vars(FcGet2(t))

\* from_cache called with one connection string, on the same or on
\* different identifiers
StartFromCache(t) ==
    /\ Alive
    /\ pc[t] = "idle"
    /\ calls < MaxCalls
    /\ \E r \in {x \in Requests : /\ x.command = CheckCmd
                                   /\ x.connection_string = CsSqlite} :
          Begin(t, r)

NextCacheFair ==
    \E t \in Tasks :
        \/ StartFromCache(t)
        \/ FcRead(t) \/ FcGet(t) \/ FcWrite(t) \/ FcInsert(t)
        \/ FcRead2(t) \/ FcGet2(t)

SpecCacheFair == Init /\ [][NextCacheFair]_vars /\ FairCache

\* from_options on its own, over the connection strings of ConnStrings
InitDispatch ==
    /\ CacheInit
    /\ TaskInit
    /\ SrvInit
    /\ conn_in \in {<<cs>> : cs \in ConnStrings} /\ conn_out = <<>>
    /\ exec_in = <<>> /\ exec_out = <<>>

ApplyFromOptions ==
    /\ conn_in # <<>>
    /\ conn_out = <<>>
    /\ \E accepted \in BOOLEAN :
         conn_out' = <<from_options(conn_in[1], accepted)>>
    /\ UNCHANGED <<conn_in, exec_in, exec_out>>
    /\ UNCHANGED cacheVars
    /\ UNCHANGED taskVars
    /\ UNCHANGED srvVars

SpecDispatch == InitDispatch /\ [][ApplyFromOptions]_vars

\* get_pool on one handle: the state in which the commands in flight have
\* resolved the identifier "c1" one after the other, the first of them
\* having registered the handle, and all are about to call get_pool
InitPool ==
    /\ \E cs \in CmdConnStrings :
         /\ options = (1 :> cs)
         /\ firstOpt = [id \in Ids |-> IF id = "c1" THEN <<cs>> ELSE <<>>]
         /\ req \in [Tasks -> {r \in Requests : r.connection_id = "c1"}]
         /\ \E t \in Tasks : req[t].connection_string = cs
    /\ map = ("c1" :> 1)
    /\ readers = {}
    /\ writer = {}
    /\ handles = {1}
    /\ cell = (1 :> <<>>)
    /\ permit = (1 :> {})
    /\ initRuns = (1 :> 0)
    /\ madeFor = (1 :> "c1")
    /\ returned = [id \in Ids |-> IF id = "c1" THEN {1} ELSE {}]
    /\ pc = [t \in Tasks |-> "gp_check"]
    /\ connect = [t \in Tasks |-> 1]
    /\ pool = [t \in Tasks |-> NonePool]
    /\ resp = [t \in Tasks |-> NoResponse]
    /\ calls = NumTasks
    /\ conn_in = <<>> /\ conn_out = <<>>
    /\ exec_in = <<>> /\ exec_out = <<>>
    /\ SrvInit

NextPool ==
    \E t \in Tasks :
        \/ GpCheck(t) \/ GpAcquire(t) \/ GpInit(t)
        \/ ExecuteSqlQuery(t) \/ CheckConnection(t) \/ Finish(t)

SpecPool == InitPool /\ [][NextPool]_vars

\* execute_query on its own, over the statements and answers of ExecInputs
InitExec ==
    /\ CacheInit
    /\ TaskInit
    /\ SrvInit
    /\ conn_in = <<>> /\ conn_out = <<>>
    /\ exec_in \in {<<x>> : x \in ExecInputs} /\ exec_out = <<>>

ApplyExecuteQuery ==
    /\ exec_in # <<>>
    /\ exec_out = <<>>
    /\ exec_out' = <<execute_query(exec_in[1].backend, exec_in[1].query,
                                   exec_in[1].db)>>
    /\ UNCHANGED <<conn_in, conn_out, exec_in>>
    /\ UNCHANGED cacheVars
    /\ UNCHANGED taskVars
    /\ UNCHANGED srvVars

SpecExec == InitExec /\ [][ApplyExecuteQuery]_vars

\* code_lens on its own, over the parsed documents of LensInputs
InitLens ==
    /\ CacheInit
    /\ TaskInit
    /\ conn_in = <<>> /\ conn_out = <<>>
    /\ exec_in = <<>> /\ exec_out = <<>>
    /\ cancel = FALSE
    /\ RestInit
    /\ lens_in \in {<<x>> : x \in LensInputs} /\ lens_out = <<>>

\* Ok(Some(code_lens))
ApplyCodeLens ==
    /\ lens_in # <<>>
    /\ lens_out = <<>>
    /\ lens_out' = <<[ok |-> TRUE, some |-> TRUE, lenses |-> code_lens(lens_in[1])]>>
    /\ UNCHANGED <<cancel, lens_in, restVars>>
    /\ UNCHANGED cacheVars
    /\ UNCHANGED taskVars
    /\ UNCHANGED fnVars

SpecLens == InitLens /\ [][ApplyCodeLens]_vars

\* check_connection on its own, over the pools and answers of CheckInputs
InitCheck ==
    /\ CacheInit
    /\ TaskInit
    /\ SrvInit
    /\ conn_in = <<>> /\ conn_out = <<>>
    /\ exec_in \in {<<x>> : x \in CheckInputs} /\ exec_out = <<>>

ApplyCheckConnection ==
    /\ exec_in # <<>>
    /\ exec_out = <<>>
    /\ exec_out' = <<check_connection(exec_in[1].db)>>
    /\ UNCHANGED <<conn_in, conn_out, exec_in>>
    /\ UNCHANGED cacheVars
    /\ UNCHANGED taskVars
    /\ UNCHANGED srvVars

SpecCheck == InitCheck /\ [][ApplyCheckConnection]_vars

(***************************************************************************)
(* Properties                                                              *)
(***************************************************************************)
AfterFromCache == {"gp_check", "gp_acquire", "gp_init", "call", "done"}
AfterGetPool == {"call", "done"}

\* C1: all from_cache calls for an identifier return the same handle, and the
\* handle registered under the identifier is the one that was returned: it
\* does not change once a call has returned it.
C1_SameHandle ==
    \A id \in Ids :
        /\ Cardinality(returned[id]) <= 1
        /\ returned[id] # {} => id \in DOMAIN map /\ map[id] \in returned[id]

RECURSIVE SumRuns(_)
SumRuns(hs) ==
    IF hs = {} THEN 0
    ELSE LET h == CHOOSE x \in hs : TRUE
         IN  initRuns[h] + SumRuns(hs \ {h})

\* C2: for each identifier from_options runs at most once over all the
\* handles made for it, and the callers that have their get_pool result for
\* the same identifier hold the same outcome.
C2_OneConstruction ==
    /\ \A id \in Ids : SumRuns({h \in handles : madeFor[h] = id}) <= 1
    /\ \A t, u \in Tasks :
         pc[t] \in AfterGetPool /\ pc[u] \in AfterGetPool
         /\ req[t].connection_id = req[u].connection_id
         => pool[t] = pool[u]

\* C3: in a run that serves one command at a time, every resolve of an
\* identifier returns the one handle registered for it, and that handle's
\* options are the parameters of the first resolve, whatever parameters the
\* later ones carry.
C3_FirstParamsKept ==
    \A t \in Tasks :
        pc[t] \in AfterFromCache =>
            /\ req[t].connection_id \in DOMAIN map
            /\ connect[t] = map[req[t].connection_id]
            /\ returned[req[t].connection_id] = {connect[t]}
            /\ options[connect[t]] = firstOpt[req[t].connection_id][1]

\* a second resolve with other parameters has returned
C3_Witness ==
    \E t \in Tasks :
        /\ pc[t] = "call"
        /\ firstOpt[req[t].connection_id] # <<req[t].connection_string>>
        /\ options[connect[t]] # req[t].connection_string

\* C4: on one handle from_options runs at most once, at most one caller is
\* in the initialiser at a time (a caller arriving meanwhile waits for the
\* permit), and every caller gets the outcome held in the cell.
C4_InitOnce ==
    /\ \A h \in handles :
         /\ initRuns[h] <= 1
         /\ Cardinality({t \in Tasks : pc[t] = "gp_init" /\ connect[t] = h}) <= 1
    /\ \A t \in Tasks :
         pc[t] \in AfterGetPool =>
            cell[connect[t]] # <<>> /\ pool[t] = cell[connect[t]][1]

\* one caller is in the initialiser and another waits on the same handle
C4_Witness ==
    \E t, u \in Tasks :
        /\ t # u
        /\ connect[t] = connect[u]
        /\ pc[t] = "gp_init"
        /\ pc[u] = "gp_acquire"

\* C5: a cell that holds an outcome keeps it in every step, and a get_pool
\* that returns while the cell holds an outcome returns that outcome; a None
\* is never replaced by a new attempt.
C5_OutcomeFixed ==
    [][\A h \in handles :
         cell[h] # <<>> =>
            /\ cell'[h] = cell[h]
            /\ initRuns'[h] = initRuns[h]
            /\ \A t \in Tasks :
                 pc[t] \in {"gp_check", "gp_acquire"} /\ connect[t] = h
                 /\ pc'[t] = "call"
                 => pool'[t] = cell[h][1]]_vars

\* two callers hold None from a handle that was initialised once
C5_Witness ==
    \E t, u \in Tasks :
        /\ t # u
        /\ pc[t] \in AfterGetPool /\ pc[u] \in AfterGetPool
        /\ connect[t] = connect[u]
        /\ ~pool[t].some /\ ~pool[u].some
        /\ initRuns[connect[t]] = 1

SupportedPrefixes ==
    {S_sqlite, S_mysql, S_mysql_url, S_postgres, S_postgresql_url}

HasSupportedPrefix(s) == \E p \in SupportedPrefixes : starts_with(s, p)

\* C6: a connection string that does not begin with a supported scheme
\* prefix gets the configuration error and no backend's pool is constructed.
C6_UnsupportedIsConfigError ==
    conn_out # <<>> /\ ~HasSupportedPrefix(conn_in[1]) =>
        /\ ~conn_out[1].ok
        /\ conn_out[1].err = ErrUnsupported
        /\ conn_out[1].backend = NoBackend

\* C7: the backend selected is the one of the prefix the connection string
\* begins with, whatever follows the prefix.
C7_BackendByPrefix ==
    conn_out # <<>> =>
        /\ starts_with(conn_in[1], S_sqlite) => conn_out[1].backend = "SQLite"
        /\ starts_with(conn_in[1], S_mysql) => conn_out[1].backend = "MySQL"
        /\ starts_with(conn_in[1], S_postgres)
           \/ starts_with(conn_in[1], S_postgresql_url)
           => conn_out[1].backend = "PostgreSQL"

\* C8: no command handler panics; a command on a handle whose pool is None
\* ends with an error response.
C8_FailuresAreErrorResponses ==
    \A t \in Tasks :
        /\ resp[t].kind # "panic"
        /\ pc[t] # "panicked"
        /\ pc[t] = "done" /\ ~pool[t].some =>
              resp[t].kind = "error" /\ resp[t].code = "InternalError"

\* C9: on the SQLite and PostgreSQL read paths a fetch that succeeded gives
\* a successful result with all rows, a cell whose string decode failed
\* being the empty string.
C9_DecodeFallback ==
    exec_out # <<>> /\ exec_in[1].backend \in {"SQLite", "PostgreSQL"}
    /\ is_select(exec_in[1].query) /\ exec_in[1].db.ok
    => /\ exec_out[1].ok
       /\ exec_out[1].total = Len(exec_in[1].db.rows)
       /\ Len(exec_out[1].value.v) = Len(exec_in[1].db.rows)
       /\ \A r \in 1..Len(exec_in[1].db.rows) :
            \A n \in 1..Len(exec_in[1].db.rows[r].columns) :
               LET row == exec_in[1].db.rows[r]
               IN  (~row.cells[n].null /\ "String" \notin row.cells[n].ok
                    /\ \A m \in (n + 1)..Len(row.columns) :
                          row.columns[m] # row.columns[n])
                   => exec_out[1].value.v[r].v[row.columns[n]] = JString(<<>>)

DecodeOrder == <<"String", "Bytes", "I64", "F64">>

\* what the claim gives for a cell: the first decode of DecodeOrder that
\* succeeds decides
FirstSuccess(c) ==
    LET ok == {k \in 1..Len(DecodeOrder) : try_get(c, DecodeOrder[k]).ok}
    IN  IF ok = {} THEN JString(S_unknown_type \o c.ty \o <<")">>)
        ELSE LET k == CHOOSE x \in ok : \A y \in ok : x <= y
                 got == try_get(c, DecodeOrder[k])
             IN  IF ~got.some THEN JNull
                 ELSE CASE k = 1 -> JString(got.v)
                        [] k = 2 -> JString(S_binary \o base64_encode(got.v))
                        [] k = 3 -> JString(i64_to_string(got.v))
                        [] k = 4 -> JString(f64_to_string(got.v))

\* C10: on the MySQL read path a fetch that succeeded gives a successful
\* result in which every column's value is the one of the first decode that
\* succeeds in the order string, bytes, i64, f64, and the unknown-type
\* marker when none does.
C10_MysqlDecodeOrder ==
    exec_out # <<>> /\ exec_in[1].backend = "MySQL"
    /\ is_select(exec_in[1].query) /\ exec_in[1].db.ok
    => /\ exec_out[1].ok
       /\ Len(exec_out[1].value.v) = Len(exec_in[1].db.rows)
       /\ \A r \in 1..Len(exec_in[1].db.rows) :
            \A n \in 1..Len(exec_in[1].db.rows[r].columns) :
               LET row == exec_in[1].db.rows[r]
               IN  (\A m \in (n + 1)..Len(row.columns) :
                       row.columns[m] # row.columns[n])
                   => exec_out[1].value.v[r].v[row.columns[n]]
                        = FirstSuccess(row.cells[n])

\* a MySQL cell that only the last two decodes take has been converted
C10_Witness ==
    /\ exec_out # <<>> /\ exec_in[1].backend = "MySQL"
    /\ is_select(exec_in[1].query) /\ exec_in[1].db.ok
    /\ \E r \in 1..Len(exec_in[1].db.rows) :
         /\ Len(exec_in[1].db.rows[r].cells) > 0
         /\ exec_in[1].db.rows[r].cells[1].ok = {"I64", "F64"}
         /\ exec_out[1].value.v[r].v[exec_in[1].db.rows[r].columns[1]]
              = JString(<<"-", "1", "2">>)

S_SELECT == <<"S", "E", "L", "E", "C", "T">>

\* q between its first and its last character that is not white space
Stripped(q) ==
    LET black == {i \in 1..Len(q) : q[i] \notin WhiteSpace}
    IN  IF black = {} THEN <<>>
        ELSE SubSeq(q, CHOOSE i \in black : \A j \in black : i <= j,
                       CHOOSE i \in black : \A j \in black : i >= j)

\* q without its surrounding white space begins with SELECT in any casing
BeginsWithSelect(q) ==
    /\ Len(Stripped(q)) >= Len(S_SELECT)
    /\ \A i \in 1..Len(S_SELECT) :
          Stripped(q)[i] \in {S_SELECT[i], S_select[i]}

\* the path a call took, read off its outcome when the database answered:
\* the read path gives a row array or fails decoding a fetched row, the
\* write path gives null
TookReadPath(out) == out.value.t = "array" \/ out.err = ErrDecode
TookWritePath(out) == out.ok /\ out.value = JNull

\* C11: execute_query takes the read path exactly when the statement,
\* without surrounding white space and whatever its casing, begins with
\* SELECT, and the write path otherwise; the three backends take the same
\* path for the same statement.
C11_ReadPathIffSelect ==
    exec_out # <<>> /\ exec_in[1].db.ok =>
        /\ TookReadPath(exec_out[1]) <=> BeginsWithSelect(exec_in[1].query)
        /\ TookWritePath(exec_out[1]) <=> ~BeginsWithSelect(exec_in[1].query)
        /\ \A b \in DatabaseType :
              TookReadPath(execute_query(b, exec_in[1].query, exec_in[1].db))
              <=> TookReadPath(exec_out[1])

\* a lower-case select with white space around it has fetched rows
C11_Witness ==
    /\ exec_out # <<>>
    /\ exec_in[1].query = Q_padded
    /\ exec_in[1].db.ok /\ Len(exec_in[1].db.rows) > 0
    /\ exec_out[1].ok /\ exec_out[1].value.t = "array"

\* C12: a successful result is a row array with the number of rows fetched,
\* which is the array's length, or null with the affected-row count the
\* driver reported; no other pairing occurs.
C12_TwoShapes ==
    exec_out # <<>> /\ exec_out[1].ok =>
        \/ /\ exec_out[1].value.t = "array"
           /\ exec_out[1].total = Len(exec_in[1].db.rows)
           /\ Len(exec_out[1].value.v) = exec_out[1].total
           /\ \A r \in 1..Len(exec_out[1].value.v) :
                 exec_out[1].value.v[r].t = "object"
           /\ is_select(exec_in[1].query)
        \/ /\ exec_out[1].value = JNull
           /\ exec_out[1].total = exec_in[1].db.affected
           /\ ~is_select(exec_in[1].query)

\* rows were fetched by a statement for which the driver also reports another
\* affected-row count
C12_Witness ==
    /\ exec_out # <<>> /\ exec_out[1].ok
    /\ exec_out[1].value.t = "array"
    /\ exec_in[1].db.affected > 0
    /\ exec_out[1].total > exec_in[1].db.affected

\* C13: check_connection never answers Ok(false): it answers Ok(true)
\* exactly when the SELECT 1 was executed without error, and an execution
\* error comes back as the call's error.
C13_NeverOkFalse ==
    exec_out # <<>> =>
        /\ ~(exec_out[1].ok /\ exec_out[1].value = FALSE)
        /\ (exec_out[1].ok /\ exec_out[1].value = TRUE) <=> exec_in[1].db.ok
        /\ ~exec_in[1].db.ok =>
              ~exec_out[1].ok /\ exec_out[1].err = ErrDriver

\* the statement failed on a MySQL pool and the call failed with it
C13_Witness ==
    /\ exec_out # <<>>
    /\ exec_in[1].backend = "MySQL"
    /\ ~exec_in[1].db.ok
    /\ ~exec_out[1].ok

FromCacheLabels == {"fc_read", "fc_get", "fc_write", "fc_insert", "fc_read2", "fc_get2"}

\* C14: from_cache builds nothing: a handle it makes has an empty cell and
\* no run of from_options, no step of from_cache changes any cell, and a
\* cell is filled only by the initialiser of a get_pool on that handle.
C14_ResolveBuildsNothing ==
    [][/\ \A h \in handles' \ handles :
             cell'[h] = <<>> /\ initRuns'[h] = 0
       /\ \A h \in handles :
             cell'[h] # cell[h] \/ initRuns'[h] # initRuns[h] =>
                /\ \E t \in Tasks :
                      pc[t] = "gp_init" /\ connect[t] = h /\ pc'[t] = "call"
                /\ \A t \in Tasks :
                      pc[t] \in FromCacheLabels => pc'[t] = pc[t]]_vars

\* from_cache has made a handle and returned it, its cell still empty
C14_Witness ==
    \E t \in Tasks :
        /\ pc[t] = "gp_check"
        /\ connect[t] \in handles
        /\ options[connect[t]] = req[t].connection_string
        /\ cell[connect[t]] = <<>>
        /\ initRuns[connect[t]] = 0

\* C15: an identifier that is a key of the map stays a key in every step,
\* the shutdown included.
C15_NoEviction ==
    [][DOMAIN map \subseteq DOMAIN map']_vars

\* the server was shut down and both identifiers are still registered
C15_Witness ==
    /\ cancel
    /\ DOMAIN map = Ids

\* C20: the lookup after the insert finds an entry for the identifier and
\* returns the handle registered under it at that moment, and a caller whose
\* first lookup found the identifier returns that handle without going for
\* the write lock.
C20_NoHalfRegistered ==
    [][\A t \in Tasks :
         /\ pc[t] \in {"fc_read2", "fc_get2"} =>
               req[t].connection_id \in DOMAIN map
         /\ pc[t] = "fc_get2" /\ pc'[t] # pc[t] =>
               /\ pc'[t] = "gp_check"
               /\ connect'[t] = map[req[t].connection_id]
         /\ pc[t] = "fc_get" /\ pc'[t] # pc[t]
            /\ req[t].connection_id \in DOMAIN map =>
               /\ pc'[t] = "gp_check"
               /\ connect'[t] = map[req[t].connection_id]
         /\ pc'[t] \in {"fc_write", "fc_insert"} /\ pc[t] = "fc_get" =>
               req[t].connection_id \notin DOMAIN map]_vars

\* two callers raced on one identifier and each got a handle back
C20_Witness ==
    \E t, u \in Tasks :
        /\ pc[t] = "gp_check" /\ pc[u] = "gp_check"
        /\ req[t].connection_id = req[u].connection_id
        /\ connect[t] # connect[u]
        /\ connect[u] = map[req[u].connection_id]

\* the first position of key k among the projected columns
FirstColumn(k, columns) ==
    CHOOSE i \in 1..Len(columns) :
        columns[i] = k /\ \A j \in 1..(i - 1) : columns[j] # k

\* C16: the row objects of one read-path result have the same key set, and
\* each holds its keys in the relative order of the projected columns.
C16_SameKeysInColumnOrder ==
    exec_out # <<>> /\ exec_out[1].ok /\ exec_out[1].value.t = "array" =>
        /\ \A r1, r2 \in 1..Len(exec_out[1].value.v) :
              DOMAIN exec_out[1].value.v[r1].v = DOMAIN exec_out[1].value.v[r2].v
        /\ \A r \in 1..Len(exec_out[1].value.v) :
              \A preserve_order \in BOOLEAN :
                 LET columns == exec_in[1].db.rows[r].columns
                     keys == map_keys(columns, preserve_order)
                 IN  /\ {keys[i] : i \in 1..Len(keys)}
                          = DOMAIN exec_out[1].value.v[r].v
                     /\ \A i, j \in 1..Len(keys) :
                           i < j => FirstColumn(keys[i], columns)
                                      < FirstColumn(keys[j], columns)

\* C17: a successful execute-query command answers with no columns, the
\* value of execute_query as rows and its count as affected_rows; the pool
\* it ran on is the outcome held by the handle that from_cache returned for
\* the command's connection_id.
C17_QueryResultFields ==
    \A t \in Tasks :
        pc[t] = "done" /\ req[t].command = ExecuteCmd
        /\ resp[t].kind = "result" =>
            /\ resp[t].data.columns = <<>>
            /\ connect[t] \in returned[req[t].connection_id]
            /\ madeFor[connect[t]] = req[t].connection_id
            /\ pool[t].some
            /\ cell[connect[t]] = <<pool[t]>>
            /\ \E db \in CmdDbAnswers :
                  LET r == execute_query(pool[t].backend, req[t].query, db)
                  IN  /\ r.ok
                      /\ resp[t].data.rows = r.value
                      /\ resp[t].data.affected_rows = r.total

\* a select was answered with one row object and the count one
C17_Witness ==
    \E t \in Tasks :
        /\ pc[t] = "done" /\ req[t].command = ExecuteCmd
        /\ resp[t].kind = "result"
        /\ resp[t].data.rows.t = "array"
        /\ Len(resp[t].data.rows.v) = 1
        /\ resp[t].data.affected_rows = 1

B64Value(c) == (CHOOSE n \in 1..Len(Base64Alphabet) : Base64Alphabet[n] = c) - 1

\* the decoder of the base64 STANDARD alphabet with padding
RECURSIVE base64_decode(_)
base64_decode(cs) ==
    IF Len(cs) < 4 THEN <<>>
    ELSE LET pad == Cardinality({i \in 3..4 : cs[i] = "="})
             v == [i \in 1..4 |-> IF cs[i] = "=" THEN 0 ELSE B64Value(cs[i])]
             n == v[1] * 262144 + v[2] * 4096 + v[3] * 64 + v[4]
             bytes == <<n \div 65536, (n \div 256) % 256, n % 256>>
         IN  SubSeq(bytes, 1, 3 - pad) \o base64_decode(SubSeq(cs, 5, Len(cs)))

\* a column of a byte-string type: the driver decodes it as bytes and
\* refuses to decode it as text
ByteStringCell(c) == ~c.null /\ "Bytes" \in c.ok /\ "String" \notin c.ok

\* C18: on the MySQL read path the value of a byte-string column with
\* payload b is "(binary) " followed by base64(b), and decoding what follows
\* the tag gives b back.
C18_BinaryRoundTrip ==
    exec_out # <<>> /\ exec_in[1].backend = "MySQL"
    /\ is_select(exec_in[1].query) /\ exec_in[1].db.ok
    => \A r \in 1..Len(exec_in[1].db.rows) :
         \A n \in 1..Len(exec_in[1].db.rows[r].columns) :
            LET row == exec_in[1].db.rows[r]
                out == exec_out[1].value.v[r].v[row.columns[n]]
            IN  (ByteStringCell(row.cells[n])
                 /\ \A m \in (n + 1)..Len(row.columns) :
                       row.columns[m] # row.columns[n])
                => /\ out = JString(S_binary \o base64_encode(row.cells[n].b))
                   /\ starts_with(out.v, S_binary)
                   /\ base64_decode(SubSeq(out.v, Len(S_binary) + 1, Len(out.v)))
                        = row.cells[n].b

\* a byte-string column holding the text "hi!" came out tagged and encoded
C18_Witness ==
    /\ exec_out # <<>> /\ exec_in[1].backend = "MySQL"
    /\ is_select(exec_in[1].query) /\ exec_in[1].db.ok
    /\ \E r \in 1..Len(exec_in[1].db.rows) :
         /\ Len(exec_in[1].db.rows[r].cells) > 0
         /\ ByteStringCell(exec_in[1].db.rows[r].cells[1])
         /\ exec_in[1].db.rows[r].cells[1].b = <<104, 105, 33>>
         /\ exec_out[1].value.v[r].v[exec_in[1].db.rows[r].columns[1]]
              = JString(S_binary \o <<"a", "G", "k", "h">>)

\* the statements of a document that are of the five kinds, in their order
LensStatements(statements) ==
    SelectSeq(statements, LAMBDA st : st.kind \in LensKinds)

\* one lens per statement of the five kinds, in statement order, each with
\* the given title, the command sql.execute and the statement's text as its
\* one argument
LensesAre(title) ==
    lens_out # <<>> =>
        /\ lens_out[1].ok /\ lens_out[1].some
        /\ Len(lens_out[1].lenses) = Len(LensStatements(lens_in[1]))
        /\ \A i \in 1..Len(lens_out[1].lenses) :
              /\ lens_out[1].lenses[i].command.title = title
              /\ lens_out[1].lenses[i].command.command = "sql.execute"
              /\ lens_out[1].lenses[i].command.arguments
                   = <<JString(LensStatements(lens_in[1])[i].text)>>

\* C19 as stated: one lens per Query, Insert, Update, Delete or CreateTable
\* statement, in statement order, none for other kinds, each titled
\* "Run SQL" with the command sql.execute and the statement's text as its
\* only argument.
C19_LensPerStatement ==
    LensesAre(<<"R", "u", "n", " ", "S", "Q", "L">>)

\* C19 amended: the same, the title being the emoji U+1F63C, a space and
\* "Run SQL".
C19_LensPerStatementTitled ==
    LensesAre(<<"U+1F63C", " ", "R", "u", "n", " ", "S", "Q", "L">>)

\* a document of a DROP and a CREATE TABLE got the one lens of the second
C19_Witness ==
    /\ lens_out # <<>>
    /\ Len(lens_in[1]) = 2
    /\ lens_in[1][1].kind = "Drop"
    /\ lens_in[1][2].kind = "CreateTable"
    /\ Len(lens_out[1].lenses) = 1
    /\ lens_out[1].lenses[1].command.arguments = <<JString(lens_in[1][2].text)>>

\* C21: a task asking for the write lock of the map does not hold its read
\* lock, nor does one asking for the read lock, and every from_cache call
\* that has begun comes to return a handle.
C21_FromCacheReturns ==
    /\ [](\A t \in Tasks :
            pc[t] \in {"fc_read", "fc_write", "fc_read2"} =>
               t \notin readers /\ t \notin writer)
    /\ \A t \in Tasks :
          (pc[t] \in FromCacheLabels) ~> (pc[t] = "gp_check")

\* one caller waits for the write lock while another holds the read lock
C21_Witness ==
    \E t, u \in Tasks :
        /\ t # u
        /\ pc[t] = "fc_write"
        /\ u \in readers

\* C23: the step that shuts the server down sets the cancellation token and
\* leaves the map, the handles, their pool cells and the commands in flight
\* as they were; a command looked up after the shutdown, whose identifier is
\* in the map, gets the handle the map holds and the map stays as it is.
C23_ShutdownFrame ==
    [][/\ cancel' # cancel =>
             /\ cancel'
             /\ UNCHANGED cacheVars
             /\ UNCHANGED taskVars
       /\ \A t \in Tasks :
             (/\ cancel
              /\ pc[t] = "fc_get" /\ pc'[t] # pc[t]
              /\ req[t].connection_id \in DOMAIN map) =>
                   /\ connect'[t] = map[req[t].connection_id]
                   /\ UNCHANGED <<map, handles, options, cell>>]_vars

\* after the shutdown, with one command still inside from_cache, another
\* command has been given the handle the map holds for its identifier
C23_Witness ==
    /\ cancel
    /\ \E t, u \in Tasks :
          /\ pc[t] = "gp_check"
          /\ req[t].connection_id \in DOMAIN map
          /\ connect[t] = map[req[t].connection_id]
          /\ pc[u] \in FromCacheLabels

\* C25: the requests without a connection_id are resolved under the
\* identifier "": all of them get one and the same handle, made for "" and
\* registered under it, so that one connection string serves them all.
C25_EmptyIdShared ==
    \A t \in Tasks :
        pc[t] \in AfterFromCache /\ req[t].connection_id = "" =>
            /\ madeFor[connect[t]] = ""
            /\ returned[""] = {connect[t]}
            /\ map[""] = connect[t]

\* the cell a row object shows under a key: the last projected column of
\* that name
LastColumn(k, columns) ==
    CHOOSE i \in 1..Len(columns) :
        columns[i] = k /\ \A j \in (i + 1)..Len(columns) : columns[j] # k

\* C27: in a read-path result of SQLite or PostgreSQL every value of every
\* row object is a JSON string, and the value of a NULL cell is the empty
\* string, the same as that of an empty text; in a read-path result of MySQL
\* the value of a NULL cell is JSON null.
C27_NullCells ==
    exec_out # <<>> /\ exec_out[1].ok /\ exec_out[1].value.t = "array" =>
        \A r \in 1..Len(exec_out[1].value.v) :
            LET row == exec_in[1].db.rows[r]
                obj == exec_out[1].value.v[r].v
            IN  \A k \in DOMAIN obj :
                   LET c == row.cells[LastColumn(k, row.columns)]
                   IN  IF exec_in[1].backend = "MySQL"
                       THEN c.null => obj[k] = JNull
                       ELSE /\ obj[k].t = "string"
                            /\ c.null => obj[k] = JString(<<>>)
                            /\ c.s = <<>> => obj[k] = JString(<<>>)

\* a NULL cell came back as the empty string from SQLite
C27_Witness ==
    /\ exec_out # <<>> /\ exec_out[1].ok /\ exec_out[1].value.t = "array"
    /\ exec_in[1].backend = "SQLite"
    /\ Len(exec_in[1].db.rows) = 1
    /\ exec_in[1].db.rows[1].columns = <<"id">>
    /\ exec_in[1].db.rows[1].cells[1].null
    /\ exec_out[1].value.v[1].v["id"] = JString(<<>>)

\* C26: a request naming no registered command is answered MethodNotFound
\* without a handler touching the cache, and a request for a registered
\* command whose argument list is empty or whose first argument does not
\* deserialize is answered with an InternalError response; the handler does
\* not abort.
C26_MalformedAnswered ==
    \A t \in Tasks :
        /\ req[t].command = UnknownCmd =>
              /\ pc[t] = "done"
              /\ resp[t] = NotFoundResponse
              /\ connect[t] = 0
        /\ req[t].command \in {ExecuteCmd, CheckCmd}
           /\ req[t].arguments # "object" =>
              /\ pc[t] = "done"
              /\ resp[t].kind = "error"
              /\ resp[t].code = "InternalError"

\* what the notifications handled so far leave for a uri: <<ast>> of the
\* latest text sent for it that parsed, or <<>> when none was sent since
\* the uri was last closed (the text of a did_change is its first content
\* change)
RECURSIVE LatestParsed(_, _)
LatestParsed(uri, events) ==
    IF events = <<>> THEN <<>>
    ELSE LET e == events[Len(events)]
             before == LatestParsed(uri, SubSeq(events, 1, Len(events) - 1))
         IN  IF e.uri # uri \/ e.op \in {"code_lens", "panic"} THEN before
             ELSE IF e.op = "did_close" THEN <<>>
             ELSE IF e.changes # <<>> /\ parse(e.changes[1]).ok
             THEN <<parse(e.changes[1]).ast>>
             ELSE before

\* the last request handled, when it was a code_lens request
LastLensRequest ==
    IF doc_log # <<>> /\ doc_log[Len(doc_log)].op = "code_lens"
    THEN <<doc_log[Len(doc_log)].uri>> ELSE <<>>

\* C24: the document map holds, for each uri, the AST of the latest text
\* that parsed since the uri was last closed and nothing for a uri without
\* one, so a text that does not parse and a change without content leave
\* it as it was; code_lens answers from that AST, or None without one.
C24_LatestParsedKept ==
    /\ \A uri \in Uris :
          IF LatestParsed(uri, doc_log) = <<>>
          THEN uri \notin DOMAIN document_map
          ELSE /\ uri \in DOMAIN document_map
               /\ document_map[uri] = LatestParsed(uri, doc_log)[1]
    /\ LastLensRequest # <<>> =>
          LET latest == LatestParsed(LastLensRequest[1], doc_log)
          IN  lens_out = <<IF latest = <<>>
                           THEN [ok |-> TRUE, some |-> FALSE, lenses |-> <<>>]
                           ELSE [ok |-> TRUE, some |-> TRUE,
                                 lenses |-> code_lens(latest[1])]>>

\* a document was opened with two statements, changed to a text that does
\* not parse, and code_lens still answers with the two lenses
C24_Witness ==
    /\ Len(doc_log) = 3
    /\ doc_log[1] = DocEvent("did_open", "a.sql", <<T_two>>)
    /\ doc_log[2] = DocEvent("did_change", "a.sql", <<Q_selec, T_two>>)
    /\ doc_log[3] = DocEvent("code_lens", "a.sql", <<>>)
    /\ Len(lens_out[1].lenses) = 2

\* C22: at most 5 connections of a handle's pool are in use at a time, one
\* per running query; a query that starts while 5 are in use waits and
\* opens none; a waiting query goes on only with a freed connection, and it
\* fails, after 30 seconds of a full pool, with the timeout error.
C22_FiveConnections ==
    /\ [](/\ in_use <= 5
          /\ in_use = Cardinality({q \in Queriers : qpc[q] = "running"})
          /\ \A q \in Queriers : qpc[q] = "waiting" => waited[q] <= 30)
    /\ [][\A q \in Queriers :
            /\ qpc[q] = "idle" /\ qpc'[q] # "idle" /\ in_use = 5 =>
                  qpc'[q] = "waiting" /\ in_use' = 5
            /\ qpc[q] = "waiting" /\ qpc'[q] = "running" =>
                  in_use < 5 /\ in_use' = in_use + 1
            /\ qpc[q] = "waiting" /\ qpc'[q] \notin {"waiting", "running"} =>
                  qpc'[q] = "timed out" /\ waited[q] = 30 /\ in_use' = in_use
            /\ qpc'[q] = "timed out" /\ qpc[q] # "timed out" =>
                  qpc[q] = "waiting"]_vars

\* five queries hold the five connections and a sixth has failed with the
\* timeout after waiting for 30 seconds
C22_Witness ==
    /\ in_use = 5
    /\ \E q \in Queriers : qpc[q] = "timed out" /\ waited[q] = 30

\* the messages of a sequence that were logged between initialize and
\* shutdown
Due(msgs) == SelectSeq(msgs, LAMBDA m : m > 0)

\* C28: the messages logged between initialize and shutdown are forwarded
\* in the order logged, and as long as the server is not shut down none of
\* them is lost, however many are logged at once: each has been forwarded
\* or waits in the channel of a forwarding task that is still receiving.
C28_LoggedAreForwarded ==
    /\ \A i \in 1..Len(Due(forwarded)) : Due(forwarded)[i] = i
    /\ rx # "unspawned" /\ ~cancel =>
          /\ rx = "select"
          /\ Due(forwarded \o chan) = [i \in 1..logged.due |-> i]

====
